---- MODULE Spec2Model ----
(***************************************************************************)
(* Model of the deep-scrape worker (src/unnamed/part_005): the queue       *)
(* consumer handleQueueMessage, the selector resolution it performs, the   *)
(* production_jobs upsert of storeJobs, and the SelfHealingWorkflow.       *)
(***************************************************************************)
EXTENDS Integers, Sequences, FiniteSets, TLC

(***************************************************************************)
(* Values.  Every nullable or textual value is a record with a `kind`      *)
(* field so that values of different shapes can be compared.               *)
(***************************************************************************)

\* null / undefined
Null == [kind |-> "null"]

\* selectorSchema's keys in declaration order
SchemaKeys == <<"jobContainer", "title", "link", "location", "description">>

RequiredKeys == {"jobContainer", "title", "link"}

OptionalKeys == {"location", "description"}

KnownKeys == RequiredKeys \cup OptionalKeys

\* DEFAULT_SELECTORS
DEFAULT_SELECTORS ==
  [jobContainer |-> "[data-job-card], .job-card, li, article",
   title        |-> "a, h2, h3",
   link         |-> "a",
   location     |-> ".job-location, .location, [data-location]",
   description  |-> "p, .description"]

\* A JavaScript object with string values is a function from its keys.
EmptyObject == [k \in {} |-> ""]

\* { ...fallback, ...overrides }
Spread(fallback, overrides) ==
  [k \in (DOMAIN fallback) \cup (DOMAIN overrides) |->
      IF k \in DOMAIN overrides THEN overrides[k] ELSE fallback[k]]

\* selectorSchema.safeParse(obj).success for an object value
SchemaAccepts(obj) ==
  /\ \A k \in RequiredKeys : k \in DOMAIN obj /\ obj[k] # ""
  /\ \A k \in OptionalKeys : k \in DOMAIN obj => obj[k] # ""

\* selectorSchema.partial(): every key optional, present keys non-empty
PartialSchemaAccepts(obj) ==
  \A k \in KnownKeys : k \in DOMAIN obj => obj[k] # ""

\* the data of a successful parse: unknown keys are stripped
SchemaData(obj) == [k \in (DOMAIN obj) \cap KnownKeys |-> obj[k]]

(***************************************************************************)
(* JSON text.  A text is one of                                            *)
(*   kind "json"   : the serialisation of an object, as its key/value      *)
(*                   pairs in insertion order                               *)
(*   kind "scalar" : valid JSON that is not an object                      *)
(*   kind "text"   : not JSON at all (JSON.parse throws)                   *)
(*   kind "empty"  : the empty string                                      *)
(***************************************************************************)
RECURSIVE PairsOf(_, _)
PairsOf(obj, keys) ==
  IF keys = <<>> THEN <<>>
  ELSE (IF Head(keys) \in DOMAIN obj
          THEN << <<Head(keys), obj[Head(keys)]>> >>
          ELSE <<>>) \o PairsOf(obj, Tail(keys))

\* JSON.stringify of a selector object (its keys are in schema order)
JsonStringify(obj) == [kind |-> "json", pairs |-> PairsOf(obj, SchemaKeys)]

EmptyString == [kind |-> "empty", pairs |-> <<>>]

NotJson == [kind |-> "text", pairs |-> <<>>]

JsonScalar == [kind |-> "scalar", pairs |-> <<>>]

\* JSON.parse succeeds on the text
JsonParses(text) == text.kind \in {"json", "scalar"}

\* the object JSON.parse returns for an object text (a later duplicate key wins)
JsonObject(text) ==
  LET keys == {text.pairs[i][1] : i \in DOMAIN text.pairs}
      last(k) == CHOOSE i \in DOMAIN text.pairs :
                    /\ text.pairs[i][1] = k
                    /\ \A j \in DOMAIN text.pairs : text.pairs[j][1] = k => j <= i
  IN [k \in keys |-> text.pairs[last(k)][2]]

\* parseSelectorPayload without the safeParse: any JSON object is returned
parseSelectorPayload_Unvalidated(serialized) ==
  IF serialized.kind # "json" THEN Null ELSE JsonObject(serialized)

\* parseSelectorPayload: undefined (Null) or a schema-valid SelectorConfig
parseSelectorPayload(serialized) ==
  IF serialized.kind \in {"null", "empty"} THEN Null
  ELSE IF ~JsonParses(serialized) THEN Null
  ELSE IF serialized.kind # "json" THEN Null
  ELSE IF SchemaAccepts(JsonObject(serialized))
         THEN SchemaData(JsonObject(serialized))
         ELSE Null

\* mergeSelectors(overrides) with the default fallback
mergeSelectors(overrides) ==
  IF overrides = Null THEN DEFAULT_SELECTORS
  ELSE Spread(DEFAULT_SELECTORS, overrides)

(***************************************************************************)
(* Selector resolution of handleQueueMessage.                              *)
(***************************************************************************)
\* selectors after the work-item override and the persisted row were looked at;
\* Null when the cache has to be read
SelectorsBeforeKv(payloadOverride, rowOverride) ==
  IF payloadOverride # Null THEN mergeSelectors(payloadOverride)
  ELSE IF rowOverride.kind \notin {"null", "empty"}
         THEN parseSelectorPayload(rowOverride)
         ELSE Null

\* selectors after the cache value was looked at
SelectorsAfterKv(kvValue) ==
  IF parseSelectorPayload(kvValue) # Null
    THEN parseSelectorPayload(kvValue)
    ELSE DEFAULT_SELECTORS

ResolveSelectors(payloadOverride, rowOverride, kvValue) ==
  IF SelectorsBeforeKv(payloadOverride, rowOverride) # Null
    THEN SelectorsBeforeKv(payloadOverride, rowOverride)
    ELSE SelectorsAfterKv(kvValue)

(***************************************************************************)
(* URLs.  kind "abs": an absolute URL (origin and path); kind "rel": a     *)
(* path without origin; kind "bad": a string new URL() rejects.            *)
(***************************************************************************)
AbsUrl(o, p) == [kind |-> "abs", origin |-> o, path |-> p]

RelUrl(p) == [kind |-> "rel", origin |-> "", path |-> p]

BadUrl == [kind |-> "bad", origin |-> "", path |-> "::"]

\* isValidUrl: new URL(value) does not throw
isValidUrl(value) == value.kind = "abs"

\* normalizeUrl: new URL(candidate, baseUrl).toString(), the candidate itself
\* when the constructor throws
normalizeUrl(candidate, baseUrl) ==
  IF candidate.kind = "abs" THEN candidate
  ELSE IF candidate.kind = "rel" /\ baseUrl.kind = "abs"
         THEN AbsUrl(baseUrl.origin, candidate.path)
         ELSE candidate

(***************************************************************************)
(* Replies of the inference binding (env.AI.run).                          *)
(*   kind "throw"   : the call rejects                                     *)
(*   kind "prose"   : a response without any brace                         *)
(*   kind "badjson" : braces around text JSON.parse rejects                *)
(*   kind "json"    : prose around a JSON object `obj`                     *)
(***************************************************************************)
AiThrows == [kind |-> "throw", obj |-> EmptyObject]

AiProse == [kind |-> "prose", obj |-> EmptyObject]

AiBadJson == [kind |-> "badjson", obj |-> EmptyObject]

AiJson(o) == [kind |-> "json", obj |-> o]

\* extractJson and JSON.parse both succeed on the reply
AiReplyParses(reply) == reply.kind = "json"

\* deriveCanonicalViaAI without the isValidUrl test
deriveCanonicalViaAI_Unvalidated(reply) ==
  IF AiReplyParses(reply) /\ "canonical_url" \in DOMAIN reply.obj
    THEN reply.obj["canonical_url"]
    ELSE Null

\* deriveCanonicalViaAI: the canonical URL, or null on any failure
deriveCanonicalViaAI(reply) ==
  IF AiReplyParses(reply)
     /\ "canonical_url" \in DOMAIN reply.obj
     /\ isValidUrl(reply.obj["canonical_url"])
    THEN reply.obj["canonical_url"]
    ELSE Null

\* suggestSelectorsWithAI: the validated suggestion, or null on any failure
suggestSelectorsWithAI(reply) ==
  IF AiReplyParses(reply) /\ SchemaAccepts(reply.obj)
    THEN SchemaData(reply.obj)
    ELSE Null

\* the step falling back to the default without looking at existingSelectors
SuggestionStepResult_DefaultOnly(reply, existingSelectors) ==
  IF suggestSelectorsWithAI(reply) # Null THEN suggestSelectorsWithAI(reply)
  ELSE DEFAULT_SELECTORS

\* 'ai-selector-suggestion': suggested ?? existingSelectors ?? DEFAULT_SELECTORS
SuggestionStepResult(reply, existingSelectors) ==
  IF suggestSelectorsWithAI(reply) # Null THEN suggestSelectorsWithAI(reply)
  ELSE IF existingSelectors # Null THEN existingSelectors
  ELSE DEFAULT_SELECTORS

(***************************************************************************)
(* Queue payloads.                                                         *)
(***************************************************************************)
\* the schema without its checks on linkedinUrl and overrideSelectors
QueuePayloadAccepts_Lax(body) == body.kind = "object" /\ body.companyId # ""

\* queuePayloadSchema.safeParse(body).success
QueuePayloadAccepts(body) ==
  /\ body.kind = "object"
  /\ body.companyId # ""
  /\ body.linkedinUrl.kind = "abs"
  /\ (body.overrideSelectors # Null => PartialSchemaAccepts(body.overrideSelectors))

\* parsed.data.overrideSelectors
PayloadOverride(body) ==
  IF body.overrideSelectors = Null THEN Null
  ELSE SchemaData(body.overrideSelectors)

(***************************************************************************)
(* Bounds and input sets.                                                  *)
(***************************************************************************)
\* deliveries of work items explored in one behaviour
MaxDeliveries == 3

\* deliveries explored when two invocations run concurrently
MaxConcurrentDeliveries == 2

Companies == {"acme", "globex"}

\* WebSocket connections of capture agents
Sockets == {"ws1", "ws2"}

\* concurrent invocations of handleQueueMessage (ctx.waitUntil per message)
Handlers == {"h1", "h2"}

LinkedinUrl(c) == AbsUrl("https://www.linkedin.com", c)

ObjectBody(c, url, override) ==
  [kind |-> "object", companyId |-> c, linkedinUrl |-> url, overrideSelectors |-> override]

TitleOverride == [title |-> ".posting-title"]

\* a later work item of the company carrying another fallback URL
LinkedinJobsUrl(c) == AbsUrl("https://www.linkedin.com", c \o "/jobs")

\* work items of one company, with and without an override
ValidBodies ==
  {ObjectBody("acme", LinkedinUrl("acme"), o) : o \in {Null, TitleOverride}}

\* the same, and a work item carrying another fallback URL
StoreBodies == ValidBodies \cup {ObjectBody("acme", LinkedinJobsUrl("acme"), Null)}

\* work items of every company, as delivered to concurrent invocations
ConcurrentBodies == {ObjectBody(c, LinkedinUrl(c), Null) : c \in Companies}

InvalidBodies ==
  { ObjectBody("", LinkedinUrl("acme"), Null),
    ObjectBody("acme", RelUrl("/company/acme"), Null),
    ObjectBody("acme", LinkedinUrl("acme"), [title |-> ""]),
    [kind |-> "string", companyId |-> "", linkedinUrl |-> BadUrl, overrideSelectors |-> Null] }

Bodies == ValidBodies \cup InvalidBodies

\* new Date().toISOString()
Timestamps == {"2026-01-01T00:00:00.000Z", "2026-01-02T00:00:00.000Z"}

\* page.content()
PageHtml == "<html>page</html>"

\* the html the capture agent posts
CapturedHtml == "<html>captured</html>"

\* jobs extractJobsFromPage can return; "" stands for an undefined location or snippet
Job(t, u, l, s) == [title |-> t, url |-> u, location |-> l, snippet |-> s]

Job1 == Job("Engineer", RelUrl("/jobs/1"), "", "first text")

Job1Again == Job("Senior Engineer", AbsUrl("https://www.linkedin.com", "/jobs/1"), "Remote", "second text")

Job2 == Job("Designer", AbsUrl("https://www.linkedin.com", "/jobs/2"), "", "")

ExtractedLists == { <<>>, <<Job1Again, Job2>>, <<Job1, Job1Again>> }

CanonicalUrl == AbsUrl("https://careers.acme.example", "/jobs")

CanonicalReplies ==
  { AiThrows, AiProse, AiBadJson,
    AiJson(EmptyObject),
    AiJson([canonical_url |-> RelUrl("/jobs")]),
    AiJson([canonical_url |-> CanonicalUrl]) }

SuggestedSelectors ==
  [jobContainer |-> ".opening", title |-> ".opening h4", link |-> ".opening a"]

SelectorReplies ==
  { AiThrows, AiProse, AiBadJson,
    AiJson([jobContainer |-> ".opening", title |-> ".opening h4"]),
    AiJson([jobContainer |-> ".opening", title |-> "", link |-> ".opening a"]),
    AiJson(SuggestedSelectors) }

(***************************************************************************)
(* State.                                                                  *)
(***************************************************************************)
VARIABLES
  company_configs,  \* D1 table company_configs: company -> row or Null
  selector_kv,      \* SELECTOR_KV: company -> value of key selectors:<company> or Null
  production_jobs,  \* D1 table production_jobs: a set of rows
  bridge,           \* ExtensionBridge storage: company -> [command, html]
  handler,          \* each handleQueueMessage invocation: its position and locals
  audit,            \* per invocation: what it has done to the message and the bindings
  deliveries,       \* work items delivered so far
  lastUpsert,       \* the last production_jobs upsert that ran
  resolverIn,       \* inputs of one selector resolution
  resolverOut,      \* its result
  upload,           \* the POST /selectors/:companyId request in progress
  ingest,           \* ingest worker: one queue() invocation, its batch and its effects
  ingest_db,        \* ingest worker: D1 tables raw_ingest and staged_jobs
  promotion,        \* stage-to-production: the workflow run in progress
  promotion_db,     \* stage-to-production: D1 tables staged_jobs and production_jobs
  deep_scrape_queue, \* stage-to-production: calls of DEEP_SCRAPE_QUEUE.send
  channel,          \* ExtensionBridge: requests served, last value written per slot, last response
  hub,              \* AgentHub: its socket maps, the connections and what each was sent
  extension         \* extension background: module variables, sockets, timers, the message in hand

vars == <<company_configs, selector_kv, production_jobs, bridge, handler, audit,
          deliveries, lastUpsert, resolverIn, resolverOut, upload,
          ingest, ingest_db, promotion, promotion_db, deep_scrape_queue,
          channel, hub, extension>>

ConfigRow(url, override) ==
  [kind |-> "row", careers_page_url |-> url, override_selectors |-> override]

NoCommand == [kind |-> "null", url |-> Null]

GetFullPageHTML(url) == [kind |-> "getFullPageHTML", url |-> url]

IdleHandler ==
  [pc |-> "idle", body |-> Null, configRow |-> Null, selectors |-> Null,
   targetUrl |-> Null, html |-> "", extracted |-> <<>>, now |-> "",
   canonical |-> Null, i |-> 1, browser |-> "none", page |-> "none",
   wfHtml |-> "", wfReply |-> Null, wfSelectors |-> Null, wfSlot |-> ""]

\* acks, retries: calls of message.ack() and message.retry(); calls: the bindings
\* used; heals: invocations of SELF_HEALING.run; writes: production_jobs upserts
\* that ran; result: what extraction returned; threw: where an exception was raised
NoAudit ==
  [acks |-> 0, retries |-> 0, calls |-> {}, heals |-> 0, writes |-> 0,
   result |-> "none", threw |-> {}]

NoUpsert == [kind |-> "null"]

NoResolverIn == [work |-> Null, row |-> Null, kv |-> Null]

\* no resolution has run
Pending == [kind |-> "pending"]

\* a slot nobody has written
Never == [kind |-> "never"]

Written(value) == [kind |-> "written", value |-> value]

NoResponse == [op |-> "none", company |-> "", slot |-> "", status |-> 0, body |-> ""]

\* no request to any ExtensionBridge object yet
NoChannel ==
  [requests |-> 0,
   written |-> [c \in Companies |-> [command |-> Never, html |-> Never]],
   response |-> NoResponse]

\* an AgentHub object nobody has connected to
\* sockets and socketIds are the object's two maps, as sets of <<key, value>>;
\* connected: the accepted connections the runtime still holds (getWebSockets());
\* acceptedAt, removedAt: the number of broadcasts made when the socket was accepted
\* and when a close, an error or a failed send was seen for it, -1 before that;
\* received: the broadcasts each socket was sent; last: the handler that ran last;
\* status: the last fetch response
NoHub ==
  [sockets |-> {}, socketIds |-> {}, connected |-> {}, nextId |-> 1,
   acceptedAt |-> [ws \in Sockets |-> -1], removedAt |-> [ws \in Sockets |-> -1],
   received |-> [ws \in Sockets |-> {}], broadcasts |-> 0, events |-> 0, last |-> "none", status |-> 0]

\* no message of the worker is being handled
NoMessage ==
  [pc |-> "idle", command |-> "", requestId |-> "", payload |-> Null, inTry |-> FALSE,
   emitted |-> <<>>]

\* the background script before initializeBackground: socket = null,
\* reconnectTimeout = null, initialized = false.  readyState: the state of every
\* WebSocket the script has created; timers: the setTimeout handles still pending
NoExtension ==
  [initialized |-> FALSE, socket |-> 0, reconnectTimeout |-> 0,
   readyState |-> <<>>, timers |-> {}, nextTimer |-> 1, calls |-> 0,
   received |-> 0, message |-> NoMessage, last |-> "none"]

InitStores ==
  /\ channel = NoChannel
  /\ hub = NoHub
  /\ extension = NoExtension
  /\ company_configs = [c \in Companies |-> Null]
  /\ selector_kv = [c \in Companies |-> Null]
  /\ production_jobs = {}
  /\ bridge = [c \in Companies |-> [command |-> NoCommand, html |-> ""]]
  /\ handler = [h \in Handlers |-> IdleHandler]
  /\ audit = [h \in Handlers |-> NoAudit]
  /\ deliveries = 0
  /\ lastUpsert = NoUpsert

\* no request to the override endpoint yet
NoUpload == [pc |-> "idle", companyId |-> "", serialized |-> Null, response |-> "none", count |-> 0]

\* the ingest worker before any batch: nothing to process, empty tables; round
\* counts redeliveries and prior holds, per redelivered message, the log of its
\* previous handling
NoBatch ==
  [batch |-> <<>>, i |-> 1, pc |-> "next", parsed |-> Null, rawIngestId |-> "",
   jobs |-> <<>>, runs |-> <<>>, retried |-> {}, log |-> <<>>,
   round |-> 0, prior |-> <<>>]

NoIngestRows == [raw_ingest |-> {}, staged_jobs |-> {}]

InitIngestIdle == ingest = NoBatch /\ ingest_db = NoIngestRows

\* no stage-to-production run, empty tables, nothing sent
NoRun ==
  [pc |-> "idle", stagedJobId |-> "", stagedJob |-> Null, vectorId |-> "",
   evaluation |-> Null, productionJobId |-> "", runs |-> 0]

NoPromotionRows == [staged_jobs |-> {}, production_jobs |-> {}]

InitPromotionIdle ==
  /\ promotion = NoRun
  /\ promotion_db = NoPromotionRows
  /\ deep_scrape_queue = <<>>

Init ==
  /\ InitStores
  /\ resolverIn = NoResolverIn
  /\ resolverOut = Pending
  /\ upload = NoUpload
  /\ InitIngestIdle
  /\ InitPromotionIdle

Called(h, what) == [audit EXCEPT ![h].calls = @ \cup {what}]

Raised(h, what, stage) ==
  [audit EXCEPT ![h].calls = @ \cup {what}, ![h].threw = @ \cup {stage}]

\* the invocation is over: its locals are gone, the browser and page it leaves
\* behind are not
Finished(hs) == [IdleHandler EXCEPT !.pc = "done", !.browser = hs.browser, !.page = hs.page]

Company(h) == handler[h].body.companyId

(***************************************************************************)
(* handleQueueMessage, one action per await.  An exception outside the     *)
(* try block leaves the invocation at "thrown" (the promise rejects and    *)
(* queue()'s catch runs); one inside it leaves it at "catch".              *)
(***************************************************************************)
StoresUnchanged == UNCHANGED <<company_configs, selector_kv, production_jobs, bridge>>

ResolverUnchanged == UNCHANGED <<resolverIn, resolverOut>>

\* what a step of the deep-scrape consumer never touches
PromotionUnchanged == UNCHANGED <<promotion, promotion_db, deep_scrape_queue>>

\* the two actors next to the pipeline
ActorsUnchanged == UNCHANGED <<channel, hub, extension>>

ElsewhereUnchanged ==
  /\ ResolverUnchanged /\ UNCHANGED <<upload, ingest, ingest_db>> /\ PromotionUnchanged
  /\ ActorsUnchanged

\* queue() hands a message to handleQueueMessage.  A payload failing the schema is
\* acknowledged and dropped before anything else is touched; a valid one goes on to
\* ensureSchema
Receive(h, bodies, limit) ==
  /\ handler[h].pc \in {"idle", "done"}
  /\ deliveries < limit
  /\ \E body \in bodies :
       IF QueuePayloadAccepts(body)
         THEN /\ handler' = [handler EXCEPT ![h] =
                   [IdleHandler EXCEPT !.pc = "readConfig", !.body = body]]
              /\ audit' = [audit EXCEPT ![h] = NoAudit]
         ELSE /\ handler' = [handler EXCEPT ![h] =
                   [IdleHandler EXCEPT !.pc = "done", !.body = body]]
              /\ audit' = [audit EXCEPT ![h] = [NoAudit EXCEPT !.acks = 1]]
  /\ deliveries' = deliveries + 1
  /\ StoresUnchanged /\ ElsewhereUnchanged
  /\ UNCHANGED lastUpsert

ReceiveAny(h) == Receive(h, Bodies, MaxDeliveries)

ReceiveConcurrent(h) == Receive(h, ConcurrentBodies, MaxConcurrentDeliveries)

\* the work item's URL whatever the row holds
TargetUrl_FallbackFirst(row, body) == body.linkedinUrl

\* configRow?.careers_page_url ?? payload.linkedinUrl
TargetUrl(row, body) ==
  IF row # Null /\ row.careers_page_url # Null
    THEN row.careers_page_url
    ELSE body.linkedinUrl

RowOverride(row) == IF row = Null THEN Null ELSE row.override_selectors

\* ensureSchema and the SELECT of the company's row, then the selector tiers that
\* need no further read
ReadConfigFails(h) ==
  /\ handler[h].pc = "readConfig"
  /\ handler' = [handler EXCEPT ![h].pc = "thrown"]
  /\ audit' = Raised(h, "db", "resolve")
  /\ StoresUnchanged /\ ElsewhereUnchanged
  /\ UNCHANGED <<deliveries, lastUpsert>>

ReadConfig(h) ==
  /\ handler[h].pc = "readConfig"
  /\ LET row == company_configs[Company(h)]
         sel == SelectorsBeforeKv(PayloadOverride(handler[h].body), RowOverride(row))
     IN handler' = [handler EXCEPT
          ![h].configRow = row,
          ![h].selectors = sel,
          ![h].targetUrl = TargetUrl(row, handler[h].body),
          ![h].pc = IF sel = Null THEN "readKv" ELSE "launch"]
  /\ audit' = Called(h, "db")
  /\ StoresUnchanged /\ ElsewhereUnchanged
  /\ UNCHANGED <<deliveries, lastUpsert>>

ReadKvFails(h) ==
  /\ handler[h].pc = "readKv"
  /\ handler' = [handler EXCEPT ![h].pc = "thrown"]
  /\ audit' = Raised(h, "kv", "resolve")
  /\ StoresUnchanged /\ ElsewhereUnchanged
  /\ UNCHANGED <<deliveries, lastUpsert>>

ReadKv(h) ==
  /\ handler[h].pc = "readKv"
  /\ handler' = [handler EXCEPT
       ![h].selectors = SelectorsAfterKv(selector_kv[Company(h)]),
       ![h].pc = "launch"]
  /\ audit' = Called(h, "kv")
  /\ StoresUnchanged /\ ElsewhereUnchanged
  /\ UNCHANGED <<deliveries, lastUpsert>>

\* puppeteer.launch(env.BROWSER)
LaunchFails(h) ==
  /\ handler[h].pc = "launch"
  /\ handler' = [handler EXCEPT ![h].pc = "thrown"]
  /\ audit' = Raised(h, "browser", "launch")
  /\ StoresUnchanged /\ ElsewhereUnchanged
  /\ UNCHANGED <<deliveries, lastUpsert>>

Launch(h) ==
  /\ handler[h].pc = "launch"
  /\ handler' = [handler EXCEPT ![h].browser = "open", ![h].pc = "newPage"]
  /\ audit' = Called(h, "browser")
  /\ StoresUnchanged /\ ElsewhereUnchanged
  /\ UNCHANGED <<deliveries, lastUpsert>>

\* browser.newPage(), still outside the try block
NewPageFails(h) ==
  /\ handler[h].pc = "newPage"
  /\ handler' = [handler EXCEPT ![h].pc = "thrown"]
  /\ audit' = Raised(h, "browser", "newPage")
  /\ StoresUnchanged /\ ElsewhereUnchanged
  /\ UNCHANGED <<deliveries, lastUpsert>>

NewPage(h) ==
  /\ handler[h].pc = "newPage"
  /\ handler' = [handler EXCEPT ![h].page = "open", ![h].pc = "extract"]
  /\ StoresUnchanged /\ ElsewhereUnchanged
  /\ UNCHANGED <<audit, deliveries, lastUpsert>>

\* where the try block goes after the canonical backfill
AfterBackfill(extracted) == IF extracted = <<>> THEN "heal" ELSE "store"

\* (!configRow || !configRow.careers_page_url) && html
WantsCanonical(row, html) ==
  /\ row = Null \/ row.careers_page_url = Null
  /\ html # ""

\* page.goto, waitForTimeout, page.content, extractJobsFromPage
ExtractFails(h) ==
  /\ handler[h].pc = "extract"
  /\ handler' = [handler EXCEPT ![h].pc = "catch"]
  /\ audit' = Raised(h, "browser", "extract")
  /\ StoresUnchanged /\ ElsewhereUnchanged
  /\ UNCHANGED <<deliveries, lastUpsert>>

ExtractFrom(h, lists) ==
  /\ handler[h].pc = "extract"
  /\ \E jobs \in lists, t \in Timestamps :
       /\ handler' = [handler EXCEPT
            ![h].html = PageHtml,
            ![h].extracted = jobs,
            ![h].now = t,
            ![h].pc = IF WantsCanonical(handler[h].configRow, PageHtml)
                        THEN "canonical" ELSE AfterBackfill(jobs)]
       /\ audit' = [audit EXCEPT ![h].result = IF jobs = <<>> THEN "zero" ELSE "some"]
  /\ StoresUnchanged /\ ElsewhereUnchanged
  /\ UNCHANGED <<deliveries, lastUpsert>>

Extract(h) == ExtractFrom(h, ExtractedLists)

\* a page on which the selectors match at least one posting
ExtractSome(h) == ExtractFrom(h, ExtractedLists \ {<<>>})

\* deriveCanonicalViaAI: never throws
Canonical(h) ==
  /\ handler[h].pc = "canonical"
  /\ \E reply \in CanonicalReplies :
       handler' = [handler EXCEPT
         ![h].canonical = deriveCanonicalViaAI(reply),
         ![h].pc = IF deriveCanonicalViaAI(reply) # Null
                     THEN "backfill" ELSE AfterBackfill(handler[h].extracted)]
  /\ audit' = Called(h, "ai")
  /\ StoresUnchanged /\ ElsewhereUnchanged
  /\ UNCHANGED <<deliveries, lastUpsert>>

\* INSERT OR REPLACE INTO company_configs ... VALUES (?, ?, COALESCE(?, override_selectors), ?):
\* a VALUES list cannot name a column of the table, SQLite rejects the statement
\* ("no such column: override_selectors") whenever it is run, so run() throws
BackfillStatementRuns == FALSE

\* the row the statement asks for: .bind(companyId, canonical, JSON.stringify(selectors), now)
BackfillRow(h) == ConfigRow(handler[h].canonical, JsonStringify(handler[h].selectors))

Backfill(h) ==
  /\ handler[h].pc = "backfill"
  /\ IF BackfillStatementRuns
       THEN /\ company_configs' = [company_configs EXCEPT ![Company(h)] = BackfillRow(h)]
            /\ handler' = [handler EXCEPT ![h].pc = AfterBackfill(handler[h].extracted)]
       ELSE /\ handler' = [handler EXCEPT ![h].pc = "catch"]
            /\ UNCHANGED company_configs
  /\ audit' = IF BackfillStatementRuns THEN Called(h, "db") ELSE Raised(h, "db", "backfill")
  /\ ElsewhereUnchanged
  /\ UNCHANGED <<selector_kv, production_jobs, bridge, deliveries, lastUpsert>>

(***************************************************************************)
(* triggerSelfHealing and SelfHealingWorkflow.run.  The invocation awaits  *)
(* env.SELF_HEALING.run(input); whatever it throws is caught and logged.   *)
(***************************************************************************)
\* triggerSelfHealing without its try/catch: the exception reaches the handler's catch
HealFailurePc_Rethrown == "catch"

\* try { await env.SELF_HEALING.run(input) } catch { console.error }: the caller
\* goes on to message.ack()
HealFailurePc == "ack"

HealInvocationFails(h) ==
  /\ handler[h].pc = "heal"
  /\ handler' = [handler EXCEPT ![h].pc = HealFailurePc]
  /\ audit' = [Raised(h, "workflow", "heal") EXCEPT ![h].heals = @ + 1]
  /\ StoresUnchanged /\ ElsewhereUnchanged
  /\ UNCHANGED <<deliveries, lastUpsert>>

Heal(h) ==
  /\ handler[h].pc = "heal"
  /\ handler' = [handler EXCEPT ![h].pc = "wfDispatch"]
  /\ audit' = [Called(h, "workflow") EXCEPT ![h].heals = @ + 1]
  /\ StoresUnchanged /\ ElsewhereUnchanged
  /\ UNCHANGED <<deliveries, lastUpsert>>

\* a workflow step whose callback throws: run() rejects, triggerSelfHealing logs it
WorkflowStepFails(h) ==
  /\ handler[h].pc \in {"wfDispatch", "wfAwait", "wfPersistKv", "wfPersistDb"}
  /\ handler' = [handler EXCEPT ![h].pc = HealFailurePc]
  /\ audit' = Raised(h, CASE handler[h].pc = "wfPersistKv" -> "kv"
                          [] handler[h].pc = "wfPersistDb" -> "db"
                          [] OTHER -> "bridge", "heal")
  /\ StoresUnchanged /\ ElsewhereUnchanged
  /\ UNCHANGED <<deliveries, lastUpsert>>

\* POST /command that also empties the html slot
PostCommand_ClearsHtml(slots, command) == [slots EXCEPT !.command = command, !.html = ""]

\* ExtensionBridge POST /command: replaces the command slot
PostCommand(slots, command) == [slots EXCEPT !.command = command]

\* POST /html that keeps a value the slot already holds
PostHtml_KeepFirst(slots, html) ==
  IF slots.html # "" THEN slots ELSE [slots EXCEPT !.html = html]

\* ExtensionBridge POST /html: replaces the html slot
PostHtml(slots, html) == [slots EXCEPT !.html = html]

\* 'dispatch-extension-command'; wfSlot remembers what the html slot held when
\* the command was written
WfDispatch(h) ==
  /\ handler[h].pc = "wfDispatch"
  /\ bridge' = [bridge EXCEPT ![Company(h)] =
       PostCommand(@, GetFullPageHTML(handler[h].targetUrl))]
  /\ handler' = [handler EXCEPT ![h].pc = "wfAwait",
                                ![h].wfSlot = bridge[Company(h)].html]
  /\ audit' = Called(h, "bridge")
  /\ ElsewhereUnchanged
  /\ UNCHANGED <<company_configs, selector_kv, production_jobs, deliveries, lastUpsert>>

\* the step without its fallback: whatever the slot holds, even nothing
AwaitedHtml_SlotOnly(slots, fallbackHtml) == slots.html

\* 'await-extension-html': GET /html answers 404 on an empty slot
AwaitedHtml(slots, fallbackHtml) == IF slots.html # "" THEN slots.html ELSE fallbackHtml

WfAwait(h) ==
  /\ handler[h].pc = "wfAwait"
  /\ handler' = [handler EXCEPT
       ![h].wfHtml = AwaitedHtml(bridge[Company(h)], handler[h].html),
       ![h].pc = "wfSuggest"]
  /\ audit' = Called(h, "bridge")
  /\ StoresUnchanged /\ ElsewhereUnchanged
  /\ UNCHANGED <<deliveries, lastUpsert>>

\* 'ai-selector-suggestion'
WfSuggest(h) ==
  /\ handler[h].pc = "wfSuggest"
  /\ \E reply \in SelectorReplies :
       handler' = [handler EXCEPT
         ![h].wfReply = reply,
         ![h].wfSelectors = SuggestionStepResult(reply, handler[h].selectors),
         ![h].pc = "wfPersistKv"]
  /\ audit' = Called(h, "ai")
  /\ StoresUnchanged /\ ElsewhereUnchanged
  /\ UNCHANGED <<deliveries, lastUpsert>>

\* a put that appends the new members to the stored object
KvPut_Append(old, serialized) ==
  IF old = Null
    THEN serialized
    ELSE [kind |-> "json", pairs |-> old.pairs \o serialized.pairs]

\* SELECTOR_KV.put(key, value): the key's value is replaced
KvPut(old, serialized) == serialized

\* 'persist-selector-updates', first await: SELECTOR_KV.put
WfPersistKv(h) ==
  /\ handler[h].pc = "wfPersistKv"
  /\ selector_kv' = [selector_kv EXCEPT ![Company(h)] =
       KvPut(@, JsonStringify(handler[h].wfSelectors))]
  /\ handler' = [handler EXCEPT ![h].pc = "wfPersistDb"]
  /\ audit' = Called(h, "kv")
  /\ ElsewhereUnchanged
  /\ UNCHANGED <<company_configs, production_jobs, bridge, deliveries, lastUpsert>>

\* the upsert with ON CONFLICT DO NOTHING: an existing row keeps its override
UpsertSelectors_KeepExisting(row, url, serialized) ==
  IF row = Null THEN ConfigRow(url, serialized) ELSE row

\* the upsert as INSERT OR REPLACE binding the run's targetUrl: the row's
\* careers_page_url is rewritten
UpsertSelectors_ReplaceUrl(row, url, serialized) == ConfigRow(url, serialized)

\* the upsert appending the new members to the stored object instead of replacing it
UpsertSelectors_Accumulate(row, url, serialized) ==
  IF row = Null
    THEN ConfigRow(url, serialized)
    ELSE [row EXCEPT !.override_selectors =
            [kind |-> "json", pairs |-> @.pairs \o serialized.pairs]]

\* INSERT INTO company_configs ... VALUES (?, COALESCE((SELECT careers_page_url ...), ?), ?, ?)
\* ON CONFLICT(company_id) DO UPDATE SET override_selectors = excluded.override_selectors
UpsertSelectors(row, url, serialized) ==
  IF row = Null
    THEN ConfigRow(url, serialized)
    ELSE [row EXCEPT !.override_selectors = serialized]

\* 'persist-selector-updates', ensureSchema and the upsert
WfPersistDb(h) ==
  /\ handler[h].pc = "wfPersistDb"
  /\ company_configs' = [company_configs EXCEPT ![Company(h)] =
       UpsertSelectors(@, handler[h].targetUrl, JsonStringify(handler[h].wfSelectors))]
  /\ handler' = [handler EXCEPT ![h].pc = "ack"]
  /\ audit' = Called(h, "db")
  /\ ElsewhereUnchanged
  /\ UNCHANGED <<selector_kv, production_jobs, bridge, deliveries, lastUpsert>>

\* the capture agent answers a pending command with POST /html
AgentPostsHtml(c) ==
  /\ bridge[c].command # NoCommand
  /\ bridge[c].html # CapturedHtml
  /\ bridge' = [bridge EXCEPT ![c] = PostHtml(@, CapturedHtml)]
  /\ ElsewhereUnchanged
  /\ UNCHANGED <<company_configs, selector_kv, production_jobs, handler, audit,
                 deliveries, lastUpsert>>

(***************************************************************************)
(* storeJobs.                                                              *)
(***************************************************************************)
\* JSON.stringify(job): undefined members are left out
JobPayload(job) ==
  [kind |-> "json",
   pairs |-> << <<"title", job.title>>, <<"url", job.url>> >>
             \o (IF job.location # "" THEN << <<"location", job.location>> >> ELSE <<>>)
             \o (IF job.snippet # "" THEN << <<"snippet", job.snippet>> >> ELSE <<>>)]

\* crypto.randomUUID(): an identifier no row carries
RandomUuid(rows) ==
  CHOOSE n \in 1..(Cardinality(rows) + 1) : \A r \in rows : r.job_id # n

\* the row the INSERT binds; "" stands for NULL in location and snippet
BoundRow(uuid, companyId, job, absoluteUrl, scrapedAt) ==
  [job_id |-> uuid, company_id |-> companyId, title |-> job.title,
   location |-> job.location, url |-> absoluteUrl, snippet |-> job.snippet,
   scraped_at |-> scrapedAt, raw_payload |-> JobPayload(job)]

SameKey(r, x) == r.company_id = x.company_id /\ r.url = x.url

\* a plain INSERT with no unique key on (company_id, url)
UpsertJob_AlwaysInsert(rows, x) == rows \cup {x}

\* INSERT OR IGNORE: a conflicting row is left as it is
UpsertJob_Ignore(rows, x) ==
  IF \E r \in rows : SameKey(r, x) THEN rows ELSE rows \cup {x}

\* the upsert as INSERT OR REPLACE: the conflicting row gives way to the bound one,
\* job_id included
UpsertJob_Reissue(rows, x) == {r \in rows : ~SameKey(r, x)} \cup {x}

\* INSERT ... ON CONFLICT(company_id, url) DO UPDATE SET title, location, snippet,
\* scraped_at, raw_payload = excluded.*
UpsertJob(rows, x) ==
  IF \E r \in rows : SameKey(r, x)
    THEN { IF SameKey(r, x)
             THEN [r EXCEPT !.title = x.title, !.location = x.location,
                            !.snippet = x.snippet, !.scraped_at = x.scraped_at,
                            !.raw_payload = x.raw_payload]
             ELSE r : r \in rows }
    ELSE rows \cup {x}

NextStorePc(h) ==
  IF handler[h].i = Len(handler[h].extracted) THEN "ack" ELSE "store"

\* storeJobs without its per-record try/catch: the exception reaches the handler's
\* catch block
StoreFailurePc_Abort(h) == "catch"

\* catch (error) { console.error('Failed to persist job', ...) }: on to the next record
StoreFailurePc(h) == NextStorePc(h)

\* one iteration of the loop whose run() throws: logged, the loop goes on
StoreJobFails(h) ==
  /\ handler[h].pc = "store"
  /\ handler' = [handler EXCEPT ![h].i = @ + 1, ![h].pc = StoreFailurePc(h)]
  /\ audit' = Raised(h, "ledger", "persist")
  /\ StoresUnchanged /\ ElsewhereUnchanged
  /\ UNCHANGED <<deliveries, lastUpsert>>

StoreJob(h) ==
  /\ handler[h].pc = "store"
  /\ LET job == handler[h].extracted[handler[h].i]
         x == BoundRow(RandomUuid(production_jobs), Company(h), job,
                       normalizeUrl(job.url, handler[h].targetUrl), handler[h].now)
         before == {r \in production_jobs : SameKey(r, x)}
     IN /\ production_jobs' = UpsertJob(production_jobs, x)
        /\ lastUpsert' = [kind |-> "upsert", bound |-> x, replaced |-> before]
  /\ handler' = [handler EXCEPT ![h].i = @ + 1, ![h].pc = NextStorePc(h)]
  /\ audit' = [Called(h, "ledger") EXCEPT ![h].writes = @ + 1]
  /\ ElsewhereUnchanged
  /\ UNCHANGED <<company_configs, selector_kv, bridge, deliveries>>

(***************************************************************************)
(* The disposition of the message and the finally block.                   *)
(***************************************************************************)
\* message.ack() after self-healing or after storeJobs
Ack(h) ==
  /\ handler[h].pc = "ack"
  /\ handler' = [handler EXCEPT ![h].pc = "closePage"]
  /\ audit' = [audit EXCEPT ![h].acks = @ + 1]
  /\ StoresUnchanged /\ ElsewhereUnchanged
  /\ UNCHANGED <<deliveries, lastUpsert>>

\* the catch block acknowledging instead of retrying
CaughtDisposition_Ack(h) == [audit EXCEPT ![h].acks = @ + 1]

\* catch (error) { message.retry() }
CaughtDisposition(h) == [audit EXCEPT ![h].retries = @ + 1]

Catch(h) ==
  /\ handler[h].pc = "catch"
  /\ handler' = [handler EXCEPT ![h].pc = "closePage"]
  /\ audit' = CaughtDisposition(h)
  /\ StoresUnchanged /\ ElsewhereUnchanged
  /\ UNCHANGED <<deliveries, lastUpsert>>

\* finally: page.close()
ClosePageFails(h) ==
  /\ handler[h].pc = "closePage"
  /\ handler' = [handler EXCEPT ![h].pc = "thrown"]
  /\ audit' = Raised(h, "browser", "close")
  /\ StoresUnchanged /\ ElsewhereUnchanged
  /\ UNCHANGED <<deliveries, lastUpsert>>

ClosePage(h) ==
  /\ handler[h].pc = "closePage"
  /\ handler' = [handler EXCEPT ![h].page = "closed", ![h].pc = "closeBrowser"]
  /\ StoresUnchanged /\ ElsewhereUnchanged
  /\ UNCHANGED <<audit, deliveries, lastUpsert>>

\* finally: browser.close()
CloseBrowserFails(h) ==
  /\ handler[h].pc = "closeBrowser"
  /\ handler' = [handler EXCEPT ![h].pc = "thrown"]
  /\ audit' = Raised(h, "browser", "close")
  /\ StoresUnchanged /\ ElsewhereUnchanged
  /\ UNCHANGED <<deliveries, lastUpsert>>

CloseBrowser(h) ==
  /\ handler[h].pc = "closeBrowser"
  /\ handler' = [handler EXCEPT ![h] = Finished([@ EXCEPT !.browser = "closed"])]
  /\ StoresUnchanged /\ ElsewhereUnchanged
  /\ UNCHANGED <<audit, deliveries, lastUpsert>>

\* queue(): handleQueueMessage(message, env).catch(() => message.retry())
QueueCatch(h) ==
  /\ handler[h].pc = "thrown"
  /\ handler' = [handler EXCEPT ![h] = Finished(@)]
  /\ audit' = [audit EXCEPT ![h].retries = @ + 1]
  /\ StoresUnchanged /\ ElsewhereUnchanged
  /\ UNCHANGED <<deliveries, lastUpsert>>

\* the steps of one invocation that raise no exception
Proceeds(h) ==
  \/ ReadConfig(h) \/ ReadKv(h) \/ Launch(h) \/ NewPage(h) \/ Extract(h)
  \/ Canonical(h) \/ Backfill(h) \/ Heal(h)
  \/ WfDispatch(h) \/ WfAwait(h) \/ WfSuggest(h) \/ WfPersistKv(h) \/ WfPersistDb(h)
  \/ StoreJob(h) \/ Ack(h) \/ Catch(h) \/ ClosePage(h) \/ CloseBrowser(h)
  \/ QueueCatch(h)

\* the steps at which a binding or the browser raises an exception
Fails(h) ==
  \/ ReadConfigFails(h) \/ ReadKvFails(h) \/ LaunchFails(h) \/ NewPageFails(h)
  \/ ExtractFails(h) \/ HealInvocationFails(h) \/ WorkflowStepFails(h)
  \/ StoreJobFails(h) \/ ClosePageFails(h) \/ CloseBrowserFails(h)

\* the consumer working through deliveries one invocation at a time
Next ==
  \/ ReceiveAny("h1")
  \/ Proceeds("h1") \/ Fails("h1")
  \/ \E c \in Companies : AgentPostsHtml(c)

Spec == Init /\ [][Next]_vars

\* ctx.waitUntil: the invocations of one batch run concurrently; here on pages that
\* yield postings, so that every invocation reaches storeJobs unless it is retried
NextLedger ==
  \E h \in Handlers :
     \/ ReceiveConcurrent(h)
     \/ ReadConfig(h) \/ ReadKv(h) \/ Launch(h) \/ NewPage(h) \/ ExtractSome(h)
     \/ Canonical(h) \/ Backfill(h)
     \/ StoreJob(h) \/ StoreJobFails(h)
     \/ Ack(h) \/ Catch(h) \/ ClosePage(h) \/ CloseBrowser(h)

SpecLedger == Init /\ [][NextLedger]_vars

(***************************************************************************)
(* Selector resolution on its own: every combination of a work-item        *)
(* override, a persisted override_selectors value and a cached value.      *)
(***************************************************************************)
\* objects with any subset of the schema's keys, each set to `value`
ObjectsWith(value) == UNION {[keys -> {value}] : keys \in SUBSET KnownKeys}

\* payload.overrideSelectors after queuePayloadSchema: absent or a partial config
WorkOverrides == {Null} \cup ObjectsWith(".from-work-item")

\* what a stored text can be: nothing, not JSON, not an object, a valid or an
\* invalid config, or a hand-written text with a repeated key
StoredTexts(value) ==
  {Null, EmptyString, NotJson, JsonScalar}
    \cup {JsonStringify(o) : o \in ObjectsWith(value)}
    \cup {JsonStringify([jobContainer |-> value, title |-> "", link |-> value]),
          [kind |-> "json",
           pairs |-> << <<"link", value>>, <<"title", "">>, <<"jobContainer", value>>,
                        <<"title", value>>, <<"note", "x">> >>]}

InitResolver ==
  /\ InitStores
  /\ resolverIn \in [work : WorkOverrides,
                     row : StoredTexts(".from-row"),
                     kv : StoredTexts(".from-cache")]
  /\ resolverOut = Pending
  /\ upload = NoUpload
  /\ InitIngestIdle
  /\ InitPromotionIdle

Resolve ==
  /\ resolverOut = Pending
  /\ resolverOut' = ResolveSelectors(resolverIn.work, resolverIn.row, resolverIn.kv)
  /\ UNCHANGED <<company_configs, selector_kv, production_jobs, bridge, handler, audit,
                 deliveries, lastUpsert, resolverIn, upload, ingest, ingest_db>>
  /\ PromotionUnchanged /\ ActorsUnchanged

NextResolver == Resolve

SpecResolver == InitResolver /\ [][NextResolver]_vars

\* the value the highest tier holding key k gives it; a stored tier holds the keys
\* of its schema-valid config
TierValue(k) ==
  LET row == parseSelectorPayload(resolverIn.row)
      kv == parseSelectorPayload(resolverIn.kv)
  IN IF resolverIn.work # Null /\ k \in DOMAIN resolverIn.work THEN resolverIn.work[k]
     ELSE IF row # Null /\ k \in DOMAIN row THEN row[k]
     ELSE IF kv # Null /\ k \in DOMAIN kv THEN kv[k]
     ELSE DEFAULT_SELECTORS[k]

\* C1: every field of the resolved selector set comes from the highest tier in
\* which that field is present (work item, persisted row, cache, default).
C1_FieldPrecedence ==
  resolverOut # Pending =>
    \A k \in KnownKeys : k \in DOMAIN resolverOut /\ resolverOut[k] = TierValue(k)

\* C2: whatever the three tiers hold, resolution yields a selector set whose
\* jobContainer, title and link are present and non-empty.
C2_ResolverTotal ==
  resolverOut # Pending =>
    /\ resolverOut # Null
    /\ \A k \in RequiredKeys : k \in DOMAIN resolverOut /\ resolverOut[k] # ""

\* C2 witness: no work-item override, a row that is not JSON and a cached object
\* that fails the schema, resolved
C2_Witness ==
  /\ resolverOut # Pending
  /\ resolverIn.work = Null
  /\ resolverIn.row = NotJson
  /\ resolverIn.kv.kind = "json"
  /\ parseSelectorPayload(resolverIn.kv) = Null

(***************************************************************************)
(* The production ledger.                                                  *)
(***************************************************************************)
\* C3: the ledger never holds two records with the same (companyId, url).
C3_UniqueKey ==
  \A r1 \in production_jobs, r2 \in production_jobs : SameKey(r1, r2) => r1 = r2

\* C3 witness: two invocations for the same company are both inside storeJobs and
\* the last upsert met an existing record of its key
C3_Witness ==
  /\ handler["h1"].pc = "store" /\ handler["h2"].pc = "store"
  /\ Company("h1") = Company("h2")
  /\ lastUpsert # NoUpsert
  /\ lastUpsert.replaced # {}

\* C4: after an upsert, exactly one record has its key and that record carries the
\* title, location, snippet, scrapedAt and rawPayload of that upsert.
C4_LatestWins ==
  lastUpsert # NoUpsert =>
    LET x == lastUpsert.bound
        same == {r \in production_jobs : SameKey(r, x)}
    IN /\ Cardinality(same) = 1
       /\ \A r \in same :
            /\ r.title = x.title
            /\ r.location = x.location
            /\ r.snippet = x.snippet
            /\ r.scraped_at = x.scraped_at
            /\ r.raw_payload = x.raw_payload

\* C4 witness: the last upsert replaced a record whose title, location, snippet and
\* scrapedAt all differed from its own
C4_Witness ==
  /\ lastUpsert # NoUpsert
  /\ \E r \in lastUpsert.replaced :
       /\ r.title # lastUpsert.bound.title
       /\ r.location # lastUpsert.bound.location
       /\ r.snippet # lastUpsert.bound.snippet
       /\ r.scraped_at # lastUpsert.bound.scraped_at
       /\ r.raw_payload # lastUpsert.bound.raw_payload

(***************************************************************************)
(* The dispatcher, one work item at a time.                                *)
(***************************************************************************)
Over(h) == handler[h].pc = "done"

\* C5: a work item whose extraction returned zero records invokes the self-heal
\* workflow exactly once and writes nothing to the ledger.
C5_ZeroResultHealsOnce ==
  \A h \in Handlers :
    Over(h) /\ audit[h].result = "zero" => audit[h].heals = 1 /\ audit[h].writes = 0

\* the selector suggestion of the invocation's workflow run, Null when the inference
\* call threw or its output did not parse or failed the schema
Suggested(h) == suggestSelectorsWithAI(handler[h].wfReply)

\* the persist step of h's workflow run has just written company_configs
PersistedDb(h) ==
  /\ handler[h].pc = "wfPersistDb"
  /\ handler'[h].pc = "ack"
  /\ "heal" \notin audit'[h].threw

\* the persist step of h's workflow run has just written the cache
PersistedKv(h) ==
  /\ handler[h].pc = "wfPersistKv"
  /\ handler'[h].pc = "wfPersistDb"

\* C6 as stated: override_selectors of a company changes only in the persist step of
\* a run whose inference call returned a schema-valid suggestion.
C6_UpdatedOnlyOnValidSuggestion ==
  [][\A c \in Companies :
       RowOverride(company_configs'[c]) # RowOverride(company_configs[c]) =>
         \E h \in Handlers :
           /\ PersistedDb(h)
           /\ Company(h) = c
           /\ Suggested(h) # Null]_vars

\* C6 amended: the persist step sets override_selectors to the schema-valid
\* suggestion when there is one and otherwise to the selector set resolved for the
\* work item; nothing else in the processing of a work item changes it.
C6_PersistWritesSuggestionOrExisting ==
  [][/\ \A h \in Handlers :
          PersistedDb(h) =>
            RowOverride(company_configs'[Company(h)]) =
              JsonStringify(IF Suggested(h) # Null THEN Suggested(h)
                            ELSE handler[h].selectors)
     /\ \A c \in Companies :
          RowOverride(company_configs'[c]) # RowOverride(company_configs[c]) =>
            \E h \in Handlers : PersistedDb(h) /\ Company(h) = c]_vars

\* C6 witness: the inference call threw, no row existed when the work item was read,
\* and the persist step has stored the resolved selectors as the override
C6_Witness ==
  \E h \in Handlers :
    /\ handler[h].pc = "ack"
    /\ handler[h].wfReply = AiThrows
    /\ handler[h].configRow = Null
    /\ "heal" \notin audit[h].threw
    /\ RowOverride(company_configs[Company(h)]) = JsonStringify(handler[h].selectors)

\* C7: when the inference call throws or yields no schema-valid JSON, the suggestion
\* step still completes, yields existingSelectors, and the persist step writes
\* exactly that value to the cache and to company_configs.
C7_FallsBackToExisting ==
  [][\A h \in Handlers :
       /\ handler[h].pc = "wfSuggest" /\ handler'[h] # handler[h] =>
            /\ handler'[h].pc = "wfPersistKv"
            /\ audit'[h].threw = audit[h].threw
            /\ suggestSelectorsWithAI(handler'[h].wfReply) = Null =>
                 handler'[h].wfSelectors = handler[h].selectors
       /\ PersistedKv(h) /\ Suggested(h) = Null =>
            selector_kv'[Company(h)] = JsonStringify(handler[h].selectors)
       /\ PersistedDb(h) /\ Suggested(h) = Null =>
            RowOverride(company_configs'[Company(h)]) = JsonStringify(handler[h].selectors)
    ]_vars

\* C7 witness: the inference call threw for a work item that carried an override,
\* and cache and row now hold the merged selectors of that work item
C7_Witness ==
  \E h \in Handlers :
    /\ handler[h].pc = "ack"
    /\ handler[h].wfReply = AiThrows
    /\ "heal" \notin audit[h].threw
    /\ handler[h].selectors # DEFAULT_SELECTORS
    /\ handler[h].wfSelectors = handler[h].selectors
    /\ selector_kv[Company(h)] = JsonStringify(handler[h].selectors)
    /\ RowOverride(company_configs[Company(h)]) = JsonStringify(handler[h].selectors)

\* C8: a work item failing the queue schema is acknowledged once, never retried, and
\* its processing uses no binding: no D1 or KV access, no browser, no inference call,
\* no workflow invocation.
C8_InvalidDiscarded ==
  \A h \in Handlers :
    handler[h].body \in InvalidBodies =>
      /\ Over(h)
      /\ audit[h].acks = 1
      /\ audit[h].retries = 0
      /\ audit[h].calls = {}
      /\ audit[h].heals = 0
      /\ handler[h].browser = "none" /\ handler[h].page = "none"

\* C8 witness: a work item with a non-URL linkedinUrl was delivered while the stores
\* were populated
C8_Witness ==
  \E h \in Handlers :
    /\ handler[h].body \in InvalidBodies
    /\ handler[h].body.kind = "object"
    /\ handler[h].body.linkedinUrl.kind = "rel"
    /\ company_configs["acme"] # Null

\* C9 as stated: an exception in resolution, session acquisition, navigation,
\* extraction or persistence leads to retry and no ack.
C9_AnyExceptionRetries ==
  \A h \in Handlers :
    Over(h) /\ audit[h].threw \cap {"resolve", "launch", "newPage", "extract", "persist"} # {} =>
      audit[h].retries >= 1 /\ audit[h].acks = 0

\* C9 amended: an exception in resolution, session acquisition, navigation or
\* extraction leads to retry and no ack; an exception raised by a ledger write is
\* caught per record and the work item is still acknowledged.
C9_ExceptionRetriesExceptLedgerWrite ==
  \A h \in Handlers :
    Over(h) =>
      /\ audit[h].threw \cap {"resolve", "launch", "newPage", "extract"} # {} =>
           audit[h].retries >= 1 /\ audit[h].acks = 0
      /\ "persist" \in audit[h].threw => audit[h].acks = 1

\* C9 witness: navigation or extraction threw, the item was retried and not acked
C9_Witness ==
  \E h \in Handlers :
    /\ Over(h)
    /\ "extract" \in audit[h].threw
    /\ audit[h].retries = 1 /\ audit[h].acks = 0

\* C10: once self-healing was triggered for a work item it is acknowledged, whether
\* the workflow ran through or threw, and a retry is requested only if closing the
\* page or the browser failed afterwards.
C10_HealAlwaysAcked ==
  \A h \in Handlers :
    /\ audit[h].heals >= 1 /\ handler[h].pc \in {"closePage", "closeBrowser", "thrown", "done"} =>
         audit[h].acks = 1
    /\ audit[h].heals >= 1 /\ audit[h].retries > 0 => "close" \in audit[h].threw

\* C10 witness: the workflow invocation threw and the item ended acknowledged
C10_Witness ==
  \E h \in Handlers :
    /\ Over(h)
    /\ audit[h].heals = 1
    /\ "heal" \in audit[h].threw
    /\ audit[h].acks = 1 /\ audit[h].retries = 0

\* C11: whenever the processing of a work item has finished, no browser and no page
\* acquired for it is still open.
C11_SessionReleased ==
  \A h \in Handlers :
    Over(h) => handler[h].browser # "open" /\ handler[h].page # "open"

\* C12: a run that reads a company_configs row whose careers_page_url is set takes
\* that URL as its target, whatever URL the work item carries, and keeps it up to
\* page.goto.
C12_CanonicalPreferred ==
  [][\A h \in Handlers :
       /\ /\ handler[h].pc = "readConfig"
          /\ handler'[h].pc \in {"readKv", "launch"}
          /\ company_configs[Company(h)] # Null
          /\ company_configs[Company(h)].careers_page_url # Null
          => handler'[h].targetUrl = company_configs[Company(h)].careers_page_url
       /\ /\ handler[h].pc \in {"readKv", "launch", "newPage"}
          /\ handler'[h].pc \in {"launch", "newPage", "extract"}
          => handler'[h].targetUrl = handler[h].targetUrl]_vars

\* C12 witness: a run is about to navigate to the stored URL although its work item
\* carries another one
C12_Witness ==
  \E h \in Handlers :
    /\ handler[h].pc = "extract"
    /\ handler[h].configRow # Null
    /\ handler[h].configRow.careers_page_url # Null
    /\ handler[h].configRow.careers_page_url # handler[h].body.linkedinUrl
    /\ handler[h].targetUrl = handler[h].configRow.careers_page_url

(***************************************************************************)
(* POST /selectors/:companyId, the manual override endpoint, next to the   *)
(* consumer: every writer of the cache and of override_selectors.          *)
(***************************************************************************)
\* requests to the endpoint explored in one behaviour
MaxUploads == 1

\* deliveries explored next to the endpoint
MaxStoreDeliveries == 2

ManualSelectors ==
  [jobContainer |-> "li.job", title |-> "li.job h3", link |-> "li.job a", location |-> ".loc"]

\* request bodies: a config, a config with a key the schema does not know, one with
\* no link, one with an empty title
SelectorUploads ==
  { ManualSelectors,
    [jobContainer |-> "li.job", title |-> "li.job h3", link |-> "li.job a", note |-> "x"],
    [jobContainer |-> "li.job", title |-> "li.job h3"],
    [jobContainer |-> "li.job", title |-> "", link |-> "li.job a"] }

\* the endpoint storing whatever it is sent
UploadAccepts_Any(payload) == TRUE

\* selectorSchema.safeParse(payload).success
UploadAccepts(payload) == SchemaAccepts(payload)

UploadUnchanged ==
  UNCHANGED <<production_jobs, bridge, handler, audit, deliveries, lastUpsert,
              resolverIn, resolverOut, ingest, ingest_db, promotion, promotion_db,
              deep_scrape_queue, channel, hub, extension>>

\* the request up to its first await: 422 on a payload failing the schema
PostSelectors(c) ==
  /\ upload.pc = "idle"
  /\ upload.count < MaxUploads
  /\ \E payload \in SelectorUploads :
       upload' = IF UploadAccepts(payload)
                   THEN [pc |-> "kv", companyId |-> c,
                         serialized |-> JsonStringify(SchemaData(payload)),
                         response |-> "none", count |-> upload.count + 1]
                   ELSE [NoUpload EXCEPT !.response = "422", !.count = upload.count + 1]
  /\ UNCHANGED <<company_configs, selector_kv>>
  /\ UploadUnchanged

\* SELECTOR_KV.put
PostSelectorsKv ==
  /\ upload.pc = "kv"
  /\ selector_kv' = [selector_kv EXCEPT ![upload.companyId] = upload.serialized]
  /\ upload' = [upload EXCEPT !.pc = "db"]
  /\ UNCHANGED company_configs
  /\ UploadUnchanged

\* ensureSchema and the upsert, which binds no URL for a new row
PostSelectorsDb ==
  /\ upload.pc = "db"
  /\ company_configs' = [company_configs EXCEPT ![upload.companyId] =
       UpsertSelectors(@, Null, upload.serialized)]
  /\ upload' = [upload EXCEPT !.pc = "idle", !.response = "ok"]
  /\ UNCHANGED selector_kv
  /\ UploadUnchanged

\* either await rejects: the request ends with 500
PostSelectorsFails ==
  /\ upload.pc \in {"kv", "db"}
  /\ upload' = [upload EXCEPT !.pc = "idle", !.response = "500"]
  /\ UNCHANGED <<company_configs, selector_kv>>
  /\ UploadUnchanged

ReceiveStore(h) == Receive(h, StoreBodies, MaxStoreDeliveries)

\* a page on which the selectors match nothing
ExtractNone(h) == ExtractFrom(h, {<<>>})

\* the consumer on pages that yield no posting, so that every work item that is not
\* retried goes through self-healing, next to the endpoint
NextStore ==
  \/ ReceiveStore("h1")
  \/ ReadConfig("h1") \/ ReadKv("h1") \/ Launch("h1") \/ NewPage("h1")
  \/ ExtractNone("h1") \/ Canonical("h1") \/ Backfill("h1")
  \/ Heal("h1") \/ WorkflowStepFails("h1")
  \/ WfDispatch("h1") \/ WfAwait("h1") \/ WfSuggest("h1")
  \/ WfPersistKv("h1") \/ WfPersistDb("h1")
  \/ Ack("h1") \/ Catch("h1") \/ ClosePage("h1") \/ CloseBrowser("h1")
  \/ \E c \in Companies : AgentPostsHtml(c)
  \/ PostSelectors("acme") \/ PostSelectorsKv \/ PostSelectorsDb \/ PostSelectorsFails

SpecStore == Init /\ [][NextStore]_vars

\* C13: every value under selectors:<companyId> and every override_selectors value
\* parses to a schema-valid selector config, and the value the canonical backfill
\* binds is one too.
C13_StoredSelectorsValid ==
  /\ \A c \in Companies :
       /\ selector_kv[c] # Null => parseSelectorPayload(selector_kv[c]) # Null
       /\ RowOverride(company_configs[c]) # Null =>
            parseSelectorPayload(RowOverride(company_configs[c])) # Null
  /\ \A h \in Handlers :
       handler[h].pc = "backfill" => SchemaAccepts(handler[h].selectors)

\* C13 witness: the endpoint has stored an operator's config in the row and a
\* self-heal run has since written the cache
C13_Witness ==
  /\ upload.response = "ok"
  /\ RowOverride(company_configs["acme"]) = JsonStringify(ManualSelectors)
  /\ handler["h1"].pc = "wfPersistDb"
  /\ selector_kv["acme"] # JsonStringify(ManualSelectors)

\* C14: a run that reads a row whose override_selectors holds a selector set S
\* extracts with S in every field its work item does not itself override.
C14_PersistedSelectorsUsed ==
  \A h \in Handlers :
    /\ handler[h].pc \in {"launch", "newPage", "extract"}
    /\ handler[h].configRow # Null
    /\ parseSelectorPayload(RowOverride(handler[h].configRow)) # Null
    => LET S == parseSelectorPayload(RowOverride(handler[h].configRow))
           own == PayloadOverride(handler[h].body)
       IN \A k \in DOMAIN S :
            (own = Null \/ k \notin DOMAIN own) =>
              k \in DOMAIN handler[h].selectors /\ handler[h].selectors[k] = S[k]

\* C15: a started workflow run is never aborted by its dispatch, await or suggestion
\* step: whatever the ExtensionBridge request or the inference call does, the run
\* goes on to the next step, up to the persist step.
C15_WorkflowNeverAborts ==
  [][\A h \in Handlers :
       handler[h].pc \in {"wfDispatch", "wfAwait", "wfSuggest"} /\ handler'[h] # handler[h] =>
         /\ handler'[h].pc \in {"wfAwait", "wfSuggest", "wfPersistKv"}
         /\ audit'[h].threw = audit[h].threw]_vars

\* C16: storeJobs is entered only with at least one extracted record; a record whose
\* write throws is skipped, the remaining records are still written, and the work
\* item is acknowledged, a retry being requested only if closing the page or the
\* browser fails afterwards.
C16_PartialPersistence ==
  [][\A h \in Handlers :
       /\ handler'[h].pc = "store" =>
            /\ handler'[h].extracted # <<>>
            /\ handler'[h].i \in 1..Len(handler'[h].extracted)
       /\ handler[h].pc = "store" /\ handler'[h] # handler[h] =>
            /\ handler'[h].i = handler[h].i + 1
            /\ handler'[h].pc = IF handler[h].i < Len(handler[h].extracted)
                                  THEN "store" ELSE "ack"
       /\ handler[h].pc = "ack" /\ handler'[h] # handler[h] => audit'[h].acks = 1
       /\ "persist" \in audit'[h].threw /\ audit'[h].retries > 0 =>
            "close" \in audit'[h].threw]_vars

\* C16 witness: the first record's write threw, the second record was written, and
\* the work item ended acknowledged
C16_Witness ==
  \E h \in Handlers :
    /\ Over(h)
    /\ "persist" \in audit[h].threw
    /\ audit[h].writes = 1
    /\ audit[h].acks = 1 /\ audit[h].retries = 0
    /\ lastUpsert # NoUpsert
    /\ lastUpsert.bound.url = Job2.url

(***************************************************************************)
(* The ingest worker (src/index.ts): queue() works through a batch one     *)
(* message at a time; handleQueueMessage parses, validates, inserts into   *)
(* raw_ingest, then either triggers the self-heal workflow or stages the   *)
(* jobs and calls the analysis model.                                      *)
(***************************************************************************)
\* messages in one batch
MaxBatch == 2

Arr(items) == [type |-> "array", items |-> items]

\* a value Array.isArray rejects
NotArray == [type |-> "object", items |-> <<>>]

\* "" stands for an absent id
IngestMessage(id, companyId, sourceUrl, selectors, data) ==
  [kind |-> "message", id |-> id, companyId |-> companyId, sourceUrl |-> sourceUrl,
   selectors |-> selectors, data |-> data]

\* an entry of data; "" stands for an absent member
Entry(id, title) == [id |-> id, title |-> title]

AcmeJobsUrl == "https://acme.com/jobs"

CardSelectors == Arr(<<".job-card">>)

EmptyCrawl(id) == IngestMessage(id, "acme", AcmeJobsUrl, CardSelectors, Arr(<<>>))

Crawl ==
  IngestMessage("m2", "acme", AcmeJobsUrl, CardSelectors,
                Arr(<<Entry("job-1", "Engineer"), Entry("", "")>>))

\* message.body: an object, a string or an ArrayBuffer; parses says whether
\* JSON.parse accepts the text, value is what it yields
IngestBody(kind, parses, value) == [kind |-> kind, parses |-> parses, value |-> value]

IngestBodies ==
  { IngestBody("object", TRUE, EmptyCrawl("m1")),
    IngestBody("object", TRUE, EmptyCrawl("")),
    IngestBody("object", TRUE, Crawl),
    IngestBody("buffer", TRUE, Crawl),
    IngestBody("string", FALSE, Null),
    IngestBody("string", TRUE, Null),
    IngestBody("object", TRUE, IngestMessage("m3", "", AcmeJobsUrl, CardSelectors, Arr(<<>>))),
    IngestBody("object", TRUE, IngestMessage("m4", "acme", AcmeJobsUrl, CardSelectors, NotArray)) }

\* a batch may hold the same message twice (redelivery)
Batches == UNION {[1..n -> IngestBodies] : n \in 1..MaxBatch}

\* JSON.parse throws on a string or buffer that is not JSON
ParseThrows(body) == body.kind \in {"string", "buffer"} /\ ~body.parses

parseMessageBody(body) == body.value

\* validateMessage: the message of the Error it throws, "" when it returns
validateMessage(message) ==
  IF message = Null THEN "Queue message is empty"
  ELSE IF message.companyId = "" THEN "Invalid companyId in ingest payload"
  ELSE IF message.sourceUrl = "" THEN "Invalid sourceUrl in ingest payload"
  ELSE IF message.selectors.type # "array" THEN "Invalid selectors in ingest payload"
  ELSE IF message.data.type # "array" THEN "Invalid data array in ingest payload"
  ELSE ""

UuidPool ==
  <<"uuid-1", "uuid-2", "uuid-3", "uuid-4", "uuid-5", "uuid-6", "uuid-7", "uuid-8">>

\* crypto.randomUUID(): an identifier not in use
IngestUuid(used) == UuidPool[CHOOSE n \in 1..Len(UuidPool) : UuidPool[n] \notin used]

UsedIds(db) ==
  {r.id : r \in db.raw_ingest} \cup {r.id : r \in db.staged_jobs}

\* normalizeDataset, entry by entry
RECURSIVE normalizeDataset(_, _, _, _)
normalizeDataset(entries, message, rawIngestId, used) ==
  IF entries = <<>> THEN <<>>
  ELSE LET entry == Head(entries)
           jobId == IF entry.id # "" THEN entry.id ELSE IngestUuid(used)
           job == [jobId |-> jobId, companyId |-> message.companyId,
                   rawIngestId |-> rawIngestId, sourceUrl |-> message.sourceUrl,
                   title |-> IF entry.title # "" THEN entry.title ELSE "Untitled Role",
                   metadata |-> entry]
       IN <<job>> \o normalizeDataset(Tail(entries), message, rawIngestId, used \cup {jobId})

\* the row insertRawIngest binds
RawIngestRow(rawIngestId, message) ==
  [id |-> rawIngestId, company_id |-> message.companyId, source_url |-> message.sourceUrl,
   selectors |-> message.selectors.items, payload |-> message.data.items]

\* the row stageJobs binds for one job
StagedJobRow(job) ==
  [id |-> job.jobId, raw_ingest_id |-> job.rawIngestId, company_id |-> job.companyId,
   source_url |-> job.sourceUrl, title |-> job.title, payload |-> job.metadata,
   status |-> "staged"]

\* params of SELF_HEAL_WORKFLOW.createRun
SelfHealParams(message, rawIngestId) ==
  [companyId |-> message.companyId, sourceUrl |-> message.sourceUrl,
   selectors |-> message.selectors.items, rawIngestId |-> rawIngestId,
   reason |-> "EMPTY_DATASET"]

\* per message: the exception its handling raised ("" for none), the id of the
\* raw_ingest row it inserted ("" for none), the createRun calls, the staged_jobs
\* rows inserted and the calls of the analysis model
NoLog == [threw |-> "", rawId |-> "", runs |-> <<>>, staged |-> 0, ai |-> 0]

IngestUnchanged ==
  UNCHANGED <<company_configs, selector_kv, production_jobs, bridge, handler, audit,
              deliveries, lastUpsert, resolverIn, resolverOut, upload, promotion,
              promotion_db, deep_scrape_queue, channel, hub, extension>>

Threw(st, what) == [st EXCEPT !.log[st.i].threw = what, !.pc = "catch"]

\* handleQueueMessage returned or the catch block ran: on to the next message
NextMessage(st) ==
  [st EXCEPT !.i = @ + 1, !.pc = "next", !.parsed = Null, !.rawIngestId = "",
             !.jobs = <<>>]

\* parseMessageBody, validateMessage and the choice of rawIngestId
IngestBegin ==
  /\ ingest.pc = "next"
  /\ ingest.i <= Len(ingest.batch)
  /\ LET body == ingest.batch[ingest.i]
         st == [ingest EXCEPT !.log = Append(@, NoLog)]
     IN ingest' =
          IF ParseThrows(body) THEN Threw(st, "SyntaxError")
          ELSE IF validateMessage(parseMessageBody(body)) # ""
            THEN Threw(st, validateMessage(parseMessageBody(body)))
          ELSE [st EXCEPT
                  !.parsed = parseMessageBody(body),
                  !.rawIngestId = IF parseMessageBody(body).id # ""
                                    THEN parseMessageBody(body).id
                                    ELSE IngestUuid(UsedIds(ingest_db)),
                  !.pc = "insert"]
  /\ UNCHANGED ingest_db
  /\ IngestUnchanged

\* an empty dataset never reaching the workflow
AfterInsertPc_AlwaysStage(message) == "stage"

\* if (parsed.data.length === 0) enqueueSelfHealingWorkflow ... else stage
AfterInsertPc(message) == IF message.data.items = <<>> THEN "heal" ELSE "stage"

\* insertRawIngest: id is the primary key, a second row with it is rejected
IngestInsertRaw ==
  /\ ingest.pc = "insert"
  /\ IF \E r \in ingest_db.raw_ingest : r.id = ingest.rawIngestId
       THEN /\ ingest' = Threw(ingest, "UNIQUE constraint failed: raw_ingest.id")
            /\ UNCHANGED ingest_db
       ELSE /\ ingest_db' = [ingest_db EXCEPT !.raw_ingest =
                 @ \cup {RawIngestRow(ingest.rawIngestId, ingest.parsed)}]
            /\ ingest' = [ingest EXCEPT
                 !.log[ingest.i].rawId = ingest.rawIngestId,
                 !.jobs = normalizeDataset(ingest.parsed.data.items, ingest.parsed,
                                           ingest.rawIngestId,
                                           UsedIds(ingest_db) \cup {ingest.rawIngestId}),
                 !.pc = AfterInsertPc(ingest.parsed)]
  /\ IngestUnchanged

IngestInsertRawFails ==
  /\ ingest.pc = "insert"
  /\ ingest' = Threw(ingest, "D1_ERROR")
  /\ UNCHANGED ingest_db
  /\ IngestUnchanged

\* enqueueSelfHealingWorkflow, then return
IngestCreateRun ==
  /\ ingest.pc = "heal"
  /\ ingest' = NextMessage([ingest EXCEPT !.log[ingest.i].runs =
       Append(@, SelfHealParams(ingest.parsed, ingest.rawIngestId))])
  /\ UNCHANGED ingest_db
  /\ IngestUnchanged

\* createRun rejects: logged and rethrown
IngestCreateRunFails ==
  /\ ingest.pc = "heal"
  /\ ingest' = Threw([ingest EXCEPT !.log[ingest.i].runs =
       Append(@, SelfHealParams(ingest.parsed, ingest.rawIngestId))], "WORKFLOW_ERROR")
  /\ UNCHANGED ingest_db
  /\ IngestUnchanged

\* stageJobs: one DB.batch, all rows or none; staged_jobs.id is the primary key
IngestStage ==
  /\ ingest.pc = "stage"
  /\ LET rows == {StagedJobRow(ingest.jobs[k]) : k \in 1..Len(ingest.jobs)}
         clash == \/ \E r \in rows, q \in ingest_db.staged_jobs : r.id = q.id
                  \/ Cardinality({r.id : r \in rows}) < Len(ingest.jobs)
     IN IF clash
          THEN /\ ingest' = Threw(ingest, "UNIQUE constraint failed: staged_jobs.id")
               /\ UNCHANGED ingest_db
          ELSE /\ ingest_db' = [ingest_db EXCEPT !.staged_jobs = @ \cup rows]
               /\ ingest' = [ingest EXCEPT !.log[ingest.i].staged = Len(ingest.jobs),
                                           !.pc = "analyse"]
  /\ IngestUnchanged

IngestStageFails ==
  /\ ingest.pc = "stage"
  /\ ingest' = Threw(ingest, "D1_ERROR")
  /\ UNCHANGED ingest_db
  /\ IngestUnchanged

\* triggerAnalysisPipeline
IngestAnalyse ==
  /\ ingest.pc = "analyse"
  /\ ingest' = NextMessage([ingest EXCEPT !.log[ingest.i].ai = @ + 1])
  /\ UNCHANGED ingest_db
  /\ IngestUnchanged

\* AI.run rejects: logged and rethrown
IngestAnalyseFails ==
  /\ ingest.pc = "analyse"
  /\ ingest' = Threw([ingest EXCEPT !.log[ingest.i].ai = @ + 1], "AI_ERROR")
  /\ UNCHANGED ingest_db
  /\ IngestUnchanged

\* a catch block that lets the exception end the loop
IngestCaught_Rethrown(st) ==
  [NextMessage(st) EXCEPT !.retried = @ \cup {st.i}, !.i = Len(st.batch) + 1]

\* catch (error) { batch.retry(message) }, then the next iteration
IngestCaught(st) == [NextMessage(st) EXCEPT !.retried = @ \cup {st.i}]

IngestCatch ==
  /\ ingest.pc = "catch"
  /\ ingest' = IngestCaught(ingest)
  /\ UNCHANGED ingest_db
  /\ IngestUnchanged

InitIngest ==
  /\ InitStores
  /\ resolverIn = NoResolverIn
  /\ resolverOut = Pending
  /\ upload = NoUpload
  /\ ingest \in {[NoBatch EXCEPT !.batch = b] : b \in Batches}
  /\ ingest_db = NoIngestRows
  /\ InitPromotionIdle

NextIngest ==
  \/ IngestBegin
  \/ IngestInsertRaw \/ IngestInsertRawFails
  \/ IngestCreateRun \/ IngestCreateRunFails
  \/ IngestStage \/ IngestStageFails
  \/ IngestAnalyse \/ IngestAnalyseFails
  \/ IngestCatch

SpecIngest == InitIngest /\ [][NextIngest]_vars

\* the messages of the batch whose handling is over
Handled == 1..(ingest.i - 1)

\* the message passes parseMessageBody and validateMessage
ValidIngest(body) == ~ParseThrows(body) /\ validateMessage(parseMessageBody(body)) = ""

\* C17: every message the consumer has handled has a row in raw_ingest, whether or
\* not it passed validation.
C17_EveryPayloadPersisted ==
  \A k \in Handled :
    /\ ingest.log[k].rawId # ""
    /\ \E r \in ingest_db.raw_ingest : r.id = ingest.log[k].rawId

\* the createRun call a valid message with an empty dataset is to make
ExpectedRun(k) ==
  <<SelfHealParams(parseMessageBody(ingest.batch[k]), ingest.log[k].rawId)>>

\* C18 as stated: handling a valid message with an empty data array calls createRun
\* exactly once, stages nothing and does not call the analysis model; with a
\* non-empty data array createRun is not called.
C18_EmptyDatasetHealsOnce ==
  \A k \in Handled :
    ValidIngest(ingest.batch[k]) =>
      IF parseMessageBody(ingest.batch[k]).data.items = <<>>
        THEN /\ Len(ingest.log[k].runs) = 1
             /\ ingest.log[k].staged = 0
             /\ ingest.log[k].ai = 0
        ELSE ingest.log[k].runs = <<>>

\* C18 amended: once the raw_ingest row of a valid message with an empty data array
\* was inserted, createRun is called exactly once with the message's companyId,
\* sourceUrl, selectors and that row's id, nothing is staged and the analysis model is
\* not called; when the insert throws, createRun is not called; with a non-empty
\* data array createRun is never called.
C18_EmptyDatasetHealsOnceAfterInsert ==
  \A k \in Handled :
    ValidIngest(ingest.batch[k]) =>
      IF parseMessageBody(ingest.batch[k]).data.items = <<>>
        THEN /\ ingest.log[k].runs =
                  IF ingest.log[k].rawId # "" THEN ExpectedRun(k) ELSE <<>>
             /\ ingest.log[k].staged = 0
             /\ ingest.log[k].ai = 0
             /\ \A r \in ingest_db.staged_jobs : r.raw_ingest_id # ingest.log[k].rawId
        ELSE ingest.log[k].runs = <<>>

\* C18 witness: an empty crawl without an id was handled after another message and
\* its workflow run was requested with the generated raw_ingest id
C18_Witness ==
  \E k \in Handled :
    /\ k > 1
    /\ ingest.batch[k] = IngestBody("object", TRUE, EmptyCrawl(""))
    /\ ingest.log[k].rawId \in {UuidPool[n] : n \in 1..Len(UuidPool)}
    /\ ingest.log[k].runs = ExpectedRun(k)
    /\ ingest.log[k].threw = ""

\* C19: a message is retried exactly when its handling threw, whatever threw, and
\* once the consumer returns every message of the batch has been handled.
C19_ThrowingMessageRetriedAlone ==
  /\ ingest.i <= Len(ingest.batch) + 1
  /\ Len(ingest.log) = IF ingest.pc = "next" THEN ingest.i - 1 ELSE ingest.i
  /\ ingest.retried \subseteq Handled
  /\ \A k \in Handled : (k \in ingest.retried) <=> (ingest.log[k].threw # "")

\* C19 witness: the first message of a batch failed validation and was retried, the
\* second one was staged and analysed and was not
C19_Witness ==
  /\ Len(ingest.batch) = 2
  /\ ingest.i = 3
  /\ ingest.retried = {1}
  /\ ingest.log[1].threw = "Invalid companyId in ingest payload"
  /\ ingest.log[2].staged = 2 /\ ingest.log[2].ai = 1

(***************************************************************************)
(* StageToProductionWorkflow.run (workflows/stage-to-production.ts): load  *)
(* the staged job, vectorize it, evaluate the fit, insert the production   *)
(* row and, for a fit score above the threshold, send a deep-scrape        *)
(* message.  A step whose callback throws ends the run.                    *)
(***************************************************************************)
\* workflow runs explored in one behaviour
MaxRuns == 2

\* if (evaluation.fit_score > 8)
DeepScrapeThreshold == 8

\* what POST /jobs/stage has stored; "" stands for a NULL vector_id
StagedJob(id, vector) ==
  [id |-> id, company_url |-> "https://acme.example",
   candidate_url |-> "https://linkedin.com/in/janedoe", vector_id |-> vector]

StagedJobs == {StagedJob("staged-1", ""), StagedJob("staged-2", "vec-2")}

\* event.stagedJobId
StagedJobIds == {"staged-1", "staged-2", "staged-9"}

\* fit_score values the model can answer with; the schema admits 0 to 10
FitScores == {0, 7, 8, 9, 10, 11}

\* the answer of the evaluation model: no text, text that is not JSON, or JSON
FitReplies ==
  {[kind |-> k, obj |-> EmptyObject] : k \in {"none", "badjson", "json"}}
    \cup {[kind |-> "json", obj |-> [fit_score |-> n]] : n \in FitScores}

\* evaluationSchema.safeParse(...).success
evaluationSchema(obj) ==
  /\ "fit_score" \in DOMAIN obj
  /\ obj.fit_score >= 0 /\ obj.fit_score <= 10

\* a boundary that also sends at the threshold
EnqueuesDeepScrape_AtThreshold(evaluation) == evaluation.fit_score >= DeepScrapeThreshold

EnqueuesDeepScrape(evaluation) == evaluation.fit_score > DeepScrapeThreshold

PromotionUuid(used) == UuidPool[CHOOSE n \in 1..Len(UuidPool) : UuidPool[n] \notin used]

PromotionIds ==
  {r.id : r \in promotion_db.production_jobs}
    \cup {r.vector_id : r \in promotion_db.staged_jobs} \cup {promotion.vectorId}

ElsewhereThanPromotion ==
  UNCHANGED <<company_configs, selector_kv, production_jobs, bridge, handler, audit,
              deliveries, lastUpsert, resolverIn, resolverOut, upload, ingest,
              ingest_db, channel, hub, extension>>

\* STAGE_TO_PRODUCTION is dispatched with a staged job id
PromoteStart ==
  /\ promotion.pc \in {"idle", "done", "failed"}
  /\ promotion.runs < MaxRuns
  /\ \E id \in StagedJobIds :
       promotion' = [NoRun EXCEPT !.pc = "load", !.stagedJobId = id,
                                  !.runs = promotion.runs + 1]
  /\ UNCHANGED <<promotion_db, deep_scrape_queue>>
  /\ ElsewhereThanPromotion

\* "load staged job": throws when there is no such row
PromoteLoad ==
  /\ promotion.pc = "load"
  /\ LET found == {r \in promotion_db.staged_jobs : r.id = promotion.stagedJobId}
     IN promotion' = IF found = {}
                       THEN [promotion EXCEPT !.pc = "failed"]
                       ELSE [promotion EXCEPT !.stagedJob = CHOOSE r \in found : TRUE,
                                              !.pc = "vectorize"]
  /\ UNCHANGED <<promotion_db, deep_scrape_queue>>
  /\ ElsewhereThanPromotion

\* "vectorize staged job": the row gets a vector_id when it had none
PromoteVectorize ==
  /\ promotion.pc = "vectorize"
  /\ LET vectorId == IF promotion.stagedJob.vector_id # ""
                       THEN promotion.stagedJob.vector_id
                       ELSE PromotionUuid(PromotionIds)
     IN /\ promotion' = [promotion EXCEPT !.vectorId = vectorId, !.pc = "evaluate"]
        /\ promotion_db' = [promotion_db EXCEPT !.staged_jobs =
             {IF r.id = promotion.stagedJob.id /\ promotion.stagedJob.vector_id = ""
                THEN [r EXCEPT !.vector_id = vectorId] ELSE r : r \in @}]
  /\ UNCHANGED deep_scrape_queue
  /\ ElsewhereThanPromotion

\* the embedding model, VECTORIZE.upsert, a D1 statement or the queue rejects
PromoteStepFails ==
  /\ promotion.pc \in {"vectorize", "evaluate", "persist", "enqueue"}
  /\ promotion' = [promotion EXCEPT !.pc = "failed"]
  /\ UNCHANGED <<promotion_db, deep_scrape_queue>>
  /\ ElsewhereThanPromotion

\* "evaluate job fit": throws unless the answer is JSON matching the schema
PromoteEvaluate ==
  /\ promotion.pc = "evaluate"
  /\ \E reply \in FitReplies :
       promotion' = IF reply.kind = "json" /\ evaluationSchema(reply.obj)
                      THEN [promotion EXCEPT !.evaluation = reply.obj, !.pc = "persist"]
                      ELSE [promotion EXCEPT !.pc = "failed"]
  /\ UNCHANGED <<promotion_db, deep_scrape_queue>>
  /\ ElsewhereThanPromotion

\* "persist production job", then the test of the fit score
PromotePersist ==
  /\ promotion.pc = "persist"
  /\ LET id == PromotionUuid(PromotionIds)
     IN /\ promotion_db' = [promotion_db EXCEPT !.production_jobs = @ \cup
             {[id |-> id, staged_job_id |-> promotion.stagedJob.id,
               fit_score |-> promotion.evaluation.fit_score]}]
        /\ promotion' = [promotion EXCEPT
             !.productionJobId = id,
             !.pc = IF EnqueuesDeepScrape(promotion.evaluation) THEN "enqueue" ELSE "done"]
  /\ UNCHANGED deep_scrape_queue
  /\ ElsewhereThanPromotion

\* "enqueue deep scrape"
PromoteEnqueue ==
  /\ promotion.pc = "enqueue"
  /\ deep_scrape_queue' = Append(deep_scrape_queue,
       [stagedJobId |-> promotion.stagedJob.id,
        productionJobId |-> promotion.productionJobId,
        companyUrl |-> promotion.stagedJob.company_url,
        candidateUrl |-> promotion.stagedJob.candidate_url])
  /\ promotion' = [promotion EXCEPT !.pc = "done"]
  /\ UNCHANGED promotion_db
  /\ ElsewhereThanPromotion

InitPromotion ==
  /\ InitStores
  /\ resolverIn = NoResolverIn
  /\ resolverOut = Pending
  /\ upload = NoUpload
  /\ InitIngestIdle
  /\ promotion = NoRun
  /\ promotion_db = [NoPromotionRows EXCEPT !.staged_jobs = StagedJobs]
  /\ deep_scrape_queue = <<>>

NextPromotion ==
  \/ PromoteStart \/ PromoteLoad \/ PromoteVectorize \/ PromoteEvaluate
  \/ PromotePersist \/ PromoteEnqueue \/ PromoteStepFails

SpecPromotion == InitPromotion /\ [][NextPromotion]_vars

\* the messages sent for a production row
SentFor(id) ==
  {k \in 1..Len(deep_scrape_queue) : deep_scrape_queue[k].productionJobId = id}

\* C20: every deep-scrape message carries the id of a production_jobs row that is
\* already stored, belongs to the same staged job and has a fit score above 8; a
\* run that has completed sent exactly one message if its fit score is above 8 and
\* none otherwise, and a run sends nothing before its last step.
C20_DeepScrapeAboveEight ==
  /\ \A k \in 1..Len(deep_scrape_queue) :
       \E r \in promotion_db.production_jobs :
         /\ r.id = deep_scrape_queue[k].productionJobId
         /\ r.staged_job_id = deep_scrape_queue[k].stagedJobId
         /\ r.fit_score > 8
  /\ \A r \in promotion_db.production_jobs : Cardinality(SentFor(r.id)) <= 1
  /\ promotion.pc = "done" =>
       Cardinality(SentFor(promotion.productionJobId)) =
         IF promotion.evaluation.fit_score > 8 THEN 1 ELSE 0
  /\ promotion.pc \in {"load", "vectorize", "evaluate", "persist", "enqueue"} =>
       SentFor(promotion.productionJobId) = {}

\* C20 witness: one completed run scored 8 and sent nothing, the next scored 9 and
\* sent a message carrying its row's id
C20_Witness ==
  /\ promotion.pc = "done"
  /\ promotion.evaluation.fit_score = 9
  /\ Len(deep_scrape_queue) = 1
  /\ deep_scrape_queue[1].productionJobId = promotion.productionJobId
  /\ \E r \in promotion_db.production_jobs : r.fit_score = 8

(***************************************************************************)
(* The canonical backfill.                                                 *)
(***************************************************************************)
\* C21: a work item whose only failure lies in the canonical backfill (the
\* inference call, its output or the company_configs write) still reaches
\* self-healing or storeJobs and is acknowledged, never retried.
C21_BackfillFailureNonFatal ==
  \A h \in Handlers :
    Over(h) /\ "ai" \in audit[h].calls /\ audit[h].threw \subseteq {"backfill"} =>
      /\ audit[h].acks = 1
      /\ audit[h].retries = 0
      /\ audit[h].result = "zero" => audit[h].heals = 1
      /\ audit[h].result = "some" => audit[h].writes >= 1

CanonicalOf(row) == IF row = Null THEN Null ELSE row.careers_page_url

\* C22: the dispatcher runs the canonical backfill write only when the row it read
\* was absent or had no careers_page_url, and the value it binds is a canonical_url
\* of the inference reply that new URL() accepts; no other step of the handler
\* itself changes careers_page_url.
C22_BackfillOnlyUnsetAndValid ==
  /\ [](\A h \in Handlers :
          handler[h].pc = "backfill" =>
            /\ CanonicalOf(handler[h].configRow) = Null
            /\ isValidUrl(handler[h].canonical)
            /\ \E reply \in CanonicalReplies :
                 /\ AiReplyParses(reply)
                 /\ "canonical_url" \in DOMAIN reply.obj
                 /\ reply.obj["canonical_url"] = handler[h].canonical)
  /\ [][\A c \in Companies :
          CanonicalOf(company_configs'[c]) # CanonicalOf(company_configs[c]) =>
            \E h \in Handlers :
              /\ Company(h) = c
              /\ \/ PersistedDb(h)
                 \/ /\ handler[h].pc = "backfill"
                    /\ CanonicalOf(company_configs'[c]) = handler[h].canonical]_vars

\* C22 witness: the backfill write is about to run with the URL the inference
\* service returned, for a company that has a row without careers_page_url
C22_Witness ==
  /\ handler["h1"].pc = "backfill"
  /\ handler["h1"].configRow # Null
  /\ handler["h1"].canonical = CanonicalUrl

(***************************************************************************)
(* Concurrent self-heal runs: queue() starts every message of a batch at   *)
(* once, so two work items of one company, each with its own fallback URL, *)
(* can both find no posting and both run the workflow.                     *)
(***************************************************************************)
HealerBodies ==
  {ObjectBody("acme", u, Null) : u \in {LinkedinUrl("acme"), LinkedinJobsUrl("acme")}}

ReceiveHealer(h) == Receive(h, HealerBodies, MaxConcurrentDeliveries)

NextHealers ==
  \E h \in Handlers :
     \/ ReceiveHealer(h)
     \/ ReadConfig(h) \/ ReadKv(h) \/ Launch(h) \/ NewPage(h) \/ ExtractNone(h)
     \/ Canonical(h) \/ Backfill(h) \/ Heal(h)
     \/ WfDispatch(h) \/ WfAwait(h) \/ WfSuggest(h) \/ WfPersistKv(h) \/ WfPersistDb(h)
     \/ Ack(h) \/ Catch(h) \/ ClosePage(h) \/ CloseBrowser(h)

SpecHealers == Init /\ [][NextHealers]_vars

\* C23: the persist step writes the run's serialised selector config, the same
\* value, to the cache entry and to override_selectors of the company's row, and a
\* careers_page_url the row already holds is left as it is.
C23_PersistWritesSameConfig ==
  [][\A h \in Handlers :
       LET c == Company(h)
           serialized == JsonStringify(handler[h].wfSelectors)
       IN /\ PersistedKv(h) =>
               /\ selector_kv'[c] = serialized
               /\ handler'[h].wfSelectors = handler[h].wfSelectors
               /\ company_configs'[c] = company_configs[c]
          /\ PersistedDb(h) =>
               /\ RowOverride(company_configs'[c]) = serialized
               /\ selector_kv'[c] = selector_kv[c]
               /\ CanonicalOf(company_configs[c]) # Null =>
                    CanonicalOf(company_configs'[c]) = CanonicalOf(company_configs[c])]_vars

\* C23 witness: a run has persisted its config into a row that another run had
\* inserted meanwhile with a different URL, and that URL is still there
C23_Witness ==
  \E h \in Handlers :
    /\ handler[h].pc = "ack"
    /\ handler[h].wfSelectors # Null
    /\ "heal" \notin audit[h].threw
    /\ handler[h].configRow = Null
    /\ RowOverride(company_configs[Company(h)]) = JsonStringify(handler[h].wfSelectors)
    /\ CanonicalOf(company_configs[Company(h)]) # handler[h].targetUrl

\* what a run of these work items can persist: the validated suggestion, or else
\* the selector set it resolved, itself the default or an earlier run's config
HealOutputs ==
  LET resolved == {DEFAULT_SELECTORS} \cup
                    {suggestSelectorsWithAI(r) : r \in {x \in SelectorReplies :
                                                          suggestSelectorsWithAI(x) # Null}}
  IN {JsonStringify(SuggestionStepResult(r, s)) : r \in SelectorReplies, s \in resolved}

\* C26: concurrent self-heal runs of one company only overwrite: the company has at
\* most one row and one cache entry, each holding the whole selector config of one
\* run, and every change of either is one run's persist step writing its own config.
C26_ConcurrentRunsOverwrite ==
  /\ [](\A c \in Companies :
          /\ selector_kv[c] # Null => selector_kv[c] \in HealOutputs
          /\ company_configs[c] # Null =>
               /\ company_configs[c].kind = "row"
               /\ RowOverride(company_configs[c]) \in HealOutputs)
  /\ [][\A c \in Companies :
          /\ selector_kv'[c] # selector_kv[c] =>
               \E h \in Handlers :
                 /\ PersistedKv(h) /\ Company(h) = c
                 /\ SchemaAccepts(handler[h].wfSelectors)
                 /\ selector_kv'[c] = JsonStringify(handler[h].wfSelectors)
          /\ RowOverride(company_configs'[c]) # RowOverride(company_configs[c]) =>
               \E h \in Handlers :
                 /\ PersistedDb(h) /\ Company(h) = c
                 /\ SchemaAccepts(handler[h].wfSelectors)
                 /\ RowOverride(company_configs'[c]) =
                      JsonStringify(handler[h].wfSelectors)]_vars

\* C26 witness: two runs of one company with different configs have interleaved
\* their persist steps: the cache holds one run's config and the row the other's
C26_Witness ==
  /\ handler["h1"].pc = "wfPersistDb"
  /\ handler["h2"].pc = "ack"
  /\ Company("h1") = Company("h2")
  /\ handler["h2"].wfSelectors # Null
  /\ handler["h1"].wfSelectors # handler["h2"].wfSelectors
  /\ selector_kv["acme"] = JsonStringify(handler["h1"].wfSelectors)
  /\ RowOverride(company_configs["acme"]) = JsonStringify(handler["h2"].wfSelectors)

(***************************************************************************)
(* One work item through self-healing, the capture agent answering or not. *)
(* The runtime keeps running an invocation that has a step to take; the    *)
(* agent is under no such obligation.                                      *)
(***************************************************************************)
MaxAwaitDeliveries == 1

ReceiveAwaited(h) == Receive(h, ValidBodies, MaxAwaitDeliveries)

\* the steps of an invocation on a page that yields no posting
AwaitStep(h) ==
  \/ ReadConfig(h) \/ ReadKv(h) \/ Launch(h) \/ NewPage(h) \/ ExtractNone(h)
  \/ Canonical(h) \/ Backfill(h) \/ Heal(h) \/ WorkflowStepFails(h)
  \/ WfDispatch(h) \/ WfAwait(h) \/ WfSuggest(h) \/ WfPersistKv(h) \/ WfPersistDb(h)
  \/ Ack(h) \/ Catch(h) \/ ClosePage(h) \/ CloseBrowser(h)

NextAwait ==
  \/ ReceiveAwaited("h1")
  \/ AwaitStep("h1")
  \/ \E c \in Companies : AgentPostsHtml(c)

SpecAwait == Init /\ [][NextAwait]_vars /\ WF_vars(AwaitStep("h1"))

\* C24: 'await-extension-html' is one read of the html slot that never waits: a
\* single step takes the run from the await to the suggestion with the slot's
\* content, or with fallbackHtml when the slot is empty, leaving the slot as it
\* was; the suggestion step always has HTML, and a run at the await always moves
\* on, whether or not the capture agent ever posts.
C24_AwaitReadsOnceNeverWaits ==
  /\ [][\A h \in Handlers :
          handler[h].pc = "wfAwait" /\ handler'[h] # handler[h] =>
            \/ /\ handler'[h].pc = "wfSuggest"
               /\ handler'[h].wfHtml =
                    (IF bridge[Company(h)].html # ""
                       THEN bridge[Company(h)].html ELSE handler[h].html)
               /\ handler'[h].wfHtml # ""
               /\ bridge' = bridge
            \/ /\ handler'[h].pc = HealFailurePc
               /\ "heal" \in audit'[h].threw
               /\ bridge' = bridge]_vars
  /\ [](\A h \in Handlers : handler[h].pc = "wfSuggest" => handler[h].wfHtml # "")
  /\ (handler["h1"].pc = "wfAwait") ~> (handler["h1"].pc \in {"wfSuggest", HealFailurePc})

\* C24 witness: the agent never posted, the slot is empty and the suggestion step
\* has the HTML the extraction had captured
C24_Witness ==
  /\ handler["h1"].pc = "wfSuggest"
  /\ bridge[Company("h1")].html = ""
  /\ bridge[Company("h1")].command # NoCommand
  /\ handler["h1"].wfHtml = handler["h1"].html
  /\ handler["h1"].wfHtml # ""

(***************************************************************************)
(* Step re-execution.  The workflow engine runs a step again when the      *)
(* step's result was not recorded (the instance restarted after the        *)
(* callback's effects and before its checkpoint); the "...Again" positions *)
(* are those of a step running for the second time with the same inputs.   *)
(***************************************************************************)
\* 'dispatch-extension-command' has run, its result is lost
WfDispatchReplayed(h) ==
  /\ handler[h].pc = "wfDispatch"
  /\ bridge' = [bridge EXCEPT ![Company(h)] =
       PostCommand(@, GetFullPageHTML(handler[h].targetUrl))]
  /\ handler' = [handler EXCEPT ![h].pc = "wfDispatchAgain",
                                ![h].wfSlot = bridge[Company(h)].html]
  /\ audit' = Called(h, "bridge")
  /\ ElsewhereUnchanged
  /\ UNCHANGED <<company_configs, selector_kv, production_jobs, deliveries, lastUpsert>>

WfDispatchAgain(h) ==
  /\ handler[h].pc = "wfDispatchAgain"
  /\ bridge' = [bridge EXCEPT ![Company(h)] =
       PostCommand(@, GetFullPageHTML(handler[h].targetUrl))]
  /\ handler' = [handler EXCEPT ![h].pc = "wfAwait"]
  /\ audit' = Called(h, "bridge")
  /\ ElsewhereUnchanged
  /\ UNCHANGED <<company_configs, selector_kv, production_jobs, deliveries, lastUpsert>>

\* 'ai-selector-suggestion' has run, its result is lost
WfSuggestReplayed(h) ==
  /\ handler[h].pc = "wfSuggest"
  /\ \E reply \in SelectorReplies :
       handler' = [handler EXCEPT
         ![h].wfReply = reply,
         ![h].wfSelectors = SuggestionStepResult(reply, handler[h].selectors),
         ![h].pc = "wfSuggestAgain"]
  /\ audit' = Called(h, "ai")
  /\ StoresUnchanged /\ ElsewhereUnchanged
  /\ UNCHANGED <<deliveries, lastUpsert>>

\* the second inference call may answer differently
WfSuggestAgain(h) ==
  /\ handler[h].pc = "wfSuggestAgain"
  /\ \E reply \in SelectorReplies :
       handler' = [handler EXCEPT
         ![h].wfReply = reply,
         ![h].wfSelectors = SuggestionStepResult(reply, handler[h].selectors),
         ![h].pc = "wfPersistKv"]
  /\ audit' = Called(h, "ai")
  /\ StoresUnchanged /\ ElsewhereUnchanged
  /\ UNCHANGED <<deliveries, lastUpsert>>

\* 'persist-selector-updates' has run to its end, its result is lost
WfPersistReplayed(h) ==
  /\ handler[h].pc = "wfPersistDb"
  /\ company_configs' = [company_configs EXCEPT ![Company(h)] =
       UpsertSelectors(@, handler[h].targetUrl, JsonStringify(handler[h].wfSelectors))]
  /\ handler' = [handler EXCEPT ![h].pc = "wfPersistKvAgain"]
  /\ audit' = Called(h, "db")
  /\ ElsewhereUnchanged
  /\ UNCHANGED <<selector_kv, production_jobs, bridge, deliveries, lastUpsert>>

WfPersistKvAgain(h) ==
  /\ handler[h].pc = "wfPersistKvAgain"
  /\ selector_kv' = [selector_kv EXCEPT ![Company(h)] =
       KvPut(@, JsonStringify(handler[h].wfSelectors))]
  /\ handler' = [handler EXCEPT ![h].pc = "wfPersistDbAgain"]
  /\ audit' = Called(h, "kv")
  /\ ElsewhereUnchanged
  /\ UNCHANGED <<company_configs, production_jobs, bridge, deliveries, lastUpsert>>

WfPersistDbAgain(h) ==
  /\ handler[h].pc = "wfPersistDbAgain"
  /\ company_configs' = [company_configs EXCEPT ![Company(h)] =
       UpsertSelectors(@, handler[h].targetUrl, JsonStringify(handler[h].wfSelectors))]
  /\ handler' = [handler EXCEPT ![h].pc = "ack"]
  /\ audit' = Called(h, "db")
  /\ ElsewhereUnchanged
  /\ UNCHANGED <<selector_kv, production_jobs, bridge, deliveries, lastUpsert>>

ReplayStep(h) ==
  \/ WfDispatchReplayed(h) \/ WfDispatchAgain(h)
  \/ WfSuggestReplayed(h) \/ WfSuggestAgain(h)
  \/ WfPersistReplayed(h) \/ WfPersistKvAgain(h) \/ WfPersistDbAgain(h)

NextReplay ==
  \/ ReceiveAwaited("h1")
  \/ AwaitStep("h1")
  \/ ReplayStep("h1")
  \/ \E c \in Companies : AgentPostsHtml(c)

SpecReplay == Init /\ [][NextReplay]_vars

SecondExecution == {"wfDispatchAgain", "wfSuggestAgain", "wfPersistKvAgain", "wfPersistDbAgain"}

\* C25: a self-heal step running a second time with the same inputs leaves the
\* extension channel, the cache and company_configs exactly as its first execution
\* left them.
C25_StepsIdempotent ==
  [][\A h \in Handlers :
       handler[h].pc \in SecondExecution /\ handler'[h] # handler[h] =>
         /\ bridge' = bridge
         /\ selector_kv' = selector_kv
         /\ company_configs' = company_configs]_vars

\* C25 witness: the persist step is in its second execution: the cache has been
\* written twice and the upsert is about to meet the row its first execution
\* inserted
C25_Witness ==
  /\ handler["h1"].pc = "wfPersistDbAgain"
  /\ handler["h1"].configRow = Null
  /\ selector_kv[Company("h1")] = JsonStringify(handler["h1"].wfSelectors)
  /\ RowOverride(company_configs[Company("h1")]) = JsonStringify(handler["h1"].wfSelectors)
  /\ bridge[Company("h1")].command = GetFullPageHTML(handler["h1"].targetUrl)

(***************************************************************************)
(* ExtensionBridge.fetch, one action per route, for the object of each     *)
(* company (idFromName(companyId)).  A slot holding the empty string and a *)
(* slot never written are the same to every read (`command ? ...`,         *)
(* `!html`), so both are the slot's empty value here; channel.written      *)
(* remembers which of the two it was.                                      *)
(***************************************************************************)
MaxBridgeRequests == 4

\* request bodies of POST /command: an empty body and two commands
CommandTexts ==
  {NoCommand, GetFullPageHTML(LinkedinUrl("acme")), GetFullPageHTML(CanonicalUrl)}

\* the html member of POST /html bodies: an empty string and two documents
HtmlTexts == {"", PageHtml, CapturedHtml}

Response(op, c, slot, status, body) ==
  [op |-> op, company |-> c, slot |-> slot, status |-> status, body |-> body]

Served(response) ==
  [channel EXCEPT !.requests = @ + 1, !.response = response]

BridgeUnchanged ==
  /\ UNCHANGED <<company_configs, selector_kv, production_jobs, handler, audit,
                 deliveries, lastUpsert, hub, extension>>
  /\ ResolverUnchanged /\ UNCHANGED <<upload, ingest, ingest_db>> /\ PromotionUnchanged

\* GET /command
BridgeGetCommand(c) ==
  /\ channel.requests < MaxBridgeRequests
  /\ channel' = Served(IF bridge[c].command # NoCommand
                         THEN Response("get", c, "command", 200, bridge[c].command)
                         ELSE Response("get", c, "command", 404, "Not Found"))
  /\ UNCHANGED bridge
  /\ BridgeUnchanged

\* POST /command
BridgePostCommand(c) ==
  /\ channel.requests < MaxBridgeRequests
  /\ \E body \in CommandTexts :
       /\ bridge' = [bridge EXCEPT ![c] = PostCommand(@, body)]
       /\ channel' = [Served(Response("post", c, "command", 200, "OK")) EXCEPT
                        !.written[c].command = Written(body)]
  /\ BridgeUnchanged

\* POST /html with a JSON body
BridgePostHtml(c) ==
  /\ channel.requests < MaxBridgeRequests
  /\ \E html \in HtmlTexts :
       /\ bridge' = [bridge EXCEPT ![c] = PostHtml(@, html)]
       /\ channel' = [Served(Response("post", c, "html", 200, "ok")) EXCEPT
                        !.written[c].html = Written(html)]
  /\ BridgeUnchanged

\* POST /html with a body request.json() rejects: fetch throws before the put
BridgePostHtmlRejected(c) ==
  /\ channel.requests < MaxBridgeRequests
  /\ channel' = Served(Response("post", c, "html", 500, "exception"))
  /\ UNCHANGED bridge
  /\ BridgeUnchanged

\* GET /html
BridgeGetHtml(c) ==
  /\ channel.requests < MaxBridgeRequests
  /\ channel' = Served(IF bridge[c].html = ""
                         THEN Response("get", c, "html", 404, "Not Found")
                         ELSE Response("get", c, "html", 200, bridge[c].html))
  /\ UNCHANGED bridge
  /\ BridgeUnchanged

\* any other method on the two routes (405) and any other path (404)
BridgeOther(c) ==
  /\ channel.requests < MaxBridgeRequests
  /\ \E r \in {<<"command", 405>>, <<"html", 405>>, <<"other", 404>>} :
       channel' = Served(Response("other", c, r[1], r[2],
                                  IF r[2] = 405 THEN "Method Not Allowed" ELSE "Not Found"))
  /\ UNCHANGED bridge
  /\ BridgeUnchanged

NextBridge ==
  \E c \in Companies :
     \/ BridgeGetCommand(c) \/ BridgePostCommand(c)
     \/ BridgePostHtml(c) \/ BridgePostHtmlRejected(c) \/ BridgeGetHtml(c)
     \/ BridgeOther(c)

SpecBridge == Init /\ [][NextBridge]_vars

\* the last write to the slot the last response is about
LastWrite == channel.written[channel.response.company][channel.response.slot]

\* the latest write to that slot stored the empty text
LastWriteEmpty ==
  /\ LastWrite # Never
  /\ LastWrite.value = (IF channel.response.slot = "html" THEN "" ELSE NoCommand)

\* C27 as stated: a read answers 200 with the value of the latest write to its
\* slot, and 404 exactly when the slot was never written; a read changes no slot.
C27_LastWriteWins ==
  /\ [](channel.response.op = "get" =>
          IF LastWrite = Never
            THEN channel.response.status = 404
            ELSE /\ channel.response.status = 200
                 /\ channel.response.body = LastWrite.value)
  /\ [][channel'.response.op = "get" /\ channel' # channel => bridge' = bridge]_vars

\* C27 amended: the same, except that a slot whose latest write was the empty
\* string reads as not found, like a slot never written.
C27_LastNonEmptyWriteWins ==
  /\ [](channel.response.op = "get" =>
          IF LastWrite = Never \/ LastWriteEmpty
            THEN channel.response.status = 404
            ELSE /\ channel.response.status = 200
                 /\ channel.response.body = LastWrite.value)
  /\ [][channel'.response.op = "get" /\ channel' # channel => bridge' = bridge]_vars

\* C27 witness: the third request is a read of the html slot, answered with the
\* document of the latest write
C27_Witness ==
  /\ channel.response.op = "get"
  /\ channel.response.slot = "html"
  /\ channel.response.status = 200
  /\ channel.response.body = PageHtml
  /\ channel.requests = 3

\* C28: a write to one slot of a company's channel changes neither the other slot
\* of that company nor any slot of another company, and nothing but a POST to a
\* slot changes it.
C28_SlotsIndependent ==
  [][\A c \in Companies :
       /\ bridge'[c].command # bridge[c].command =>
            /\ channel'.response = Response("post", c, "command", 200, "OK")
            /\ bridge'[c].html = bridge[c].html
            /\ \A d \in Companies \ {c} : bridge'[d] = bridge[d]
       /\ bridge'[c].html # bridge[c].html =>
            /\ channel'.response = Response("post", c, "html", 200, "ok")
            /\ bridge'[c].command = bridge[c].command
            /\ \A d \in Companies \ {c} : bridge'[d] = bridge[d]]_vars

\* C28 witness: one company's channel holds a command and a document, the other's a
\* different command and no document
C28_Witness ==
  /\ bridge["acme"].command = GetFullPageHTML(LinkedinUrl("acme"))
  /\ bridge["acme"].html = CapturedHtml
  /\ bridge["globex"].command = GetFullPageHTML(CanonicalUrl)
  /\ bridge["globex"].html = ""
  /\ channel.written["globex"].html = Never

\* C30: every delivery ends with exactly one disposition: one call of ack() or one
\* call of retry(), whatever failed on the way, closing the page or the browser
\* included.
C30_ExactlyOneDisposition ==
  \A h \in Handlers : Over(h) => audit[h].acks + audit[h].retries = 1

(***************************************************************************)
(* AgentHub: one action per handler.  The two maps live in memory and are  *)
(* rebuilt by the constructor from ctx.getWebSockets() when the object is  *)
(* started again.  The runtime delivers webSocketClose or webSocketError   *)
(* when a connection ends and nothing for that connection afterwards; a    *)
(* socket the object has closed itself is no longer listed either.         *)
(***************************************************************************)
MaxBroadcasts == 2

MaxHubEvents == 6

\* the sockets in the registry
Registered(st) == {e[2] : e \in st.sockets}

\* socketIds.get(ws) is defined
Identified(st, ws) == \E e \in st.socketIds : e[1] = ws

\* ensureSocket: a socket without an id gets a new one and enters both maps
ensureSocket(st, ws) ==
  IF Identified(st, ws)
    THEN st
    ELSE [st EXCEPT !.socketIds = @ \cup {<<ws, st.nextId>>},
                    !.sockets = @ \cup {<<st.nextId, ws>>},
                    !.nextId = @ + 1]

\* the handlers deleting the socket's id and leaving the entry of sockets behind
Forget_IdOnly(st, ws) ==
  [st EXCEPT !.socketIds = {e \in @ : e[1] # ws}]

\* if (socketId) { sockets.delete(socketId); socketIds.delete(ws) }
Forget(st, ws) ==
  [st EXCEPT
     !.sockets = {e \in @ : \A i \in st.socketIds : i[1] = ws => e[1] # i[2]},
     !.socketIds = {e \in @ : e[1] # ws}]

\* the connection is over and the event that says so has been seen
Ended(st, ws) ==
  [st EXCEPT !.connected = @ \ {ws},
             !.removedAt[ws] = IF @ = -1 THEN st.broadcasts ELSE @]

HubEvent(st, name, status) ==
  [st EXCEPT !.events = @ + 1, !.last = name, !.status = status]

HubUnchanged ==
  /\ UNCHANGED <<company_configs, selector_kv, production_jobs, bridge, handler, audit,
                 deliveries, lastUpsert, channel, extension>>
  /\ ResolverUnchanged /\ UNCHANGED <<upload, ingest, ingest_db>> /\ PromotionUnchanged

\* fetch with Upgrade: websocket
HubAccept(ws) ==
  /\ hub.events < MaxHubEvents
  /\ hub.acceptedAt[ws] = -1
  /\ hub' = HubEvent([hub EXCEPT
                        !.socketIds = @ \cup {<<ws, hub.nextId>>},
                        !.sockets = @ \cup {<<hub.nextId, ws>>},
                        !.nextId = @ + 1,
                        !.connected = @ \cup {ws},
                        !.acceptedAt[ws] = hub.broadcasts], "fetch", 101)
  /\ HubUnchanged

\* webSocketMessage: ensureSocket, then the message goes to the ingest queue or,
\* if it does not parse or the send fails, to the log
HubMessage(ws) ==
  /\ hub.events < MaxHubEvents
  /\ ws \in hub.connected
  /\ hub' = HubEvent(ensureSocket(hub, ws), "webSocketMessage", hub.status)
  /\ HubUnchanged

\* webSocketClose
HubClose(ws) ==
  /\ hub.events < MaxHubEvents
  /\ ws \in hub.connected
  /\ hub' = HubEvent(Ended(Forget(hub, ws), ws), "webSocketClose", hub.status)
  /\ HubUnchanged

\* webSocketError
HubError(ws) ==
  /\ hub.events < MaxHubEvents
  /\ ws \in hub.connected
  /\ hub' = HubEvent(Ended(Forget(hub, ws), ws), "webSocketError", hub.status)
  /\ HubUnchanged

RECURSIVE EndedAll(_, _)
EndedAll(st, set) ==
  IF set = {} THEN st
  ELSE LET ws == CHOOSE x \in set : TRUE IN EndedAll(Ended(st, ws), set \ {ws})

\* POST /broadcast: send to every registered socket; those whose send throws are
\* closed and deleted from sockets, their ids stay in socketIds
HubBroadcast ==
  /\ hub.events < MaxHubEvents
  /\ hub.broadcasts < MaxBroadcasts
  /\ \E stale \in SUBSET Registered(hub) :
       LET n == hub.broadcasts + 1
           sent == [hub EXCEPT
                      !.broadcasts = n,
                      !.received = [ws \in Sockets |->
                                      IF ws \in Registered(hub) \ stale
                                        THEN @[ws] \cup {n} ELSE @[ws]],
                      !.sockets = {e \in @ : e[2] \notin stale}]
       IN hub' = HubEvent(EndedAll(sent, stale), "fetch", 202)
  /\ HubUnchanged

\* POST /broadcast with a body that is not JSON (400), any other request (404)
HubRejects ==
  /\ hub.events < MaxHubEvents
  /\ \E status \in {400, 404} : hub' = HubEvent(hub, "fetch", status)
  /\ HubUnchanged

RECURSIVE ensureAll(_, _)
ensureAll(st, set) ==
  IF set = {} THEN st
  ELSE LET ws == CHOOSE x \in set : TRUE IN ensureAll(ensureSocket(st, ws), set \ {ws})

\* the object is evicted and constructed again: empty maps, then ensureSocket for
\* every socket of ctx.getWebSockets()
HubRestart ==
  /\ hub.events < MaxHubEvents
  /\ hub.connected # {}
  /\ hub' = HubEvent(ensureAll([hub EXCEPT !.sockets = {}, !.socketIds = {}],
                               hub.connected), "constructor", hub.status)
  /\ HubUnchanged

NextHub ==
  \/ \E ws \in Sockets : HubAccept(ws) \/ HubMessage(ws) \/ HubClose(ws) \/ HubError(ws)
  \/ HubBroadcast
  \/ HubRejects
  \/ HubRestart

SpecHub == Init /\ [][NextHub]_vars

\* the broadcasts made from the n-th on
Since(n) == {k \in 1..hub.broadcasts : k > n}

\* C29: a socket for which webSocketClose or webSocketError was delivered, or to
\* which a send failed, is not in the registry and is sent no later broadcast; an
\* accepted socket with none of these is sent every broadcast made since it was
\* accepted.
C29_RegistryTracksLiveSockets ==
  \A ws \in Sockets :
    /\ hub.removedAt[ws] # -1 =>
         /\ ws \notin Registered(hub)
         /\ hub.received[ws] \cap Since(hub.removedAt[ws]) = {}
    /\ hub.acceptedAt[ws] # -1 /\ hub.removedAt[ws] = -1 =>
         /\ ws \in Registered(hub)
         /\ hub.received[ws] = Since(hub.acceptedAt[ws])

\* C29 witness: two broadcasts were made; one socket got both, the other got the
\* first and then had its connection closed
C29_Witness ==
  /\ hub.broadcasts = 2
  /\ hub.received["ws1"] = {1, 2}
  /\ hub.received["ws2"] = {1}
  /\ hub.removedAt["ws2"] = 1
  /\ Registered(hub) = {"ws1"}

(***************************************************************************)
(* What the self-heal workflow and the canonical backfill write.           *)
(***************************************************************************)
\* C31: the persist step of a self-heal run never takes a company from no
\* careers_page_url (no row, or a row without one) to a careers_page_url.
C31_HealLeavesCanonicalUnset ==
  [][\A h \in Handlers :
       PersistedDb(h) /\ CanonicalOf(company_configs[Company(h)]) = Null =>
         CanonicalOf(company_configs'[Company(h)]) = Null]_vars

\* C32: the HTML handed to the suggestion step is the run's fallbackHtml or a
\* document posted after the run wrote its command, never what the html slot
\* already held at that moment.
C32_NoStaleHtml ==
  \A h \in Handlers :
    handler[h].pc = "wfSuggest" /\ handler[h].wfHtml # handler[h].html =>
      handler[h].wfHtml # handler[h].wfSlot

NoWriterInProgress(c) ==
  /\ \A h \in Handlers :
       handler[h].pc \in {"wfPersistKv", "wfPersistDb"} => Company(h) # c
  /\ upload.pc = "idle" \/ upload.companyId # c

\* C34: while no persist step and no upload is in progress for a company, the
\* cache entry and override_selectors of its row hold the same selector config.
C34_CacheEqualsRow ==
  \A c \in Companies :
    NoWriterInProgress(c) => selector_kv[c] = RowOverride(company_configs[c])

C36_JobIdPreserved ==
  /\ [](lastUpsert # NoUpsert =>
          \A old \in lastUpsert.replaced :
            /\ lastUpsert.bound.job_id # old.job_id
            /\ \A r \in production_jobs :
                 SameKey(r, lastUpsert.bound) => r.job_id = old.job_id)
  /\ [][\A r \in production_jobs :
          \E q \in production_jobs' : SameKey(q, r) /\ q.job_id = r.job_id]_vars

\* C36 witness: the last upsert met a record of its key and changed its title
C36_Witness ==
  /\ lastUpsert # NoUpsert
  /\ \E old \in lastUpsert.replaced :
       /\ old.title # lastUpsert.bound.title
       /\ \E r \in production_jobs :
            /\ SameKey(r, old)
            /\ r.job_id = old.job_id
            /\ r.title = lastUpsert.bound.title

(***************************************************************************)
(* Redelivery to the ingest worker: the messages given to batch.retry come *)
(* back in a later batch.  Faults of the bindings occur in the first       *)
(* delivery only; by the time of a redelivery they have cleared.           *)
(***************************************************************************)
MaxRedeliveries == 1

RECURSIVE Pick(_, _, _)
Pick(seq, keep, k) ==
  IF k > Len(seq) THEN <<>>
  ELSE (IF k \in keep THEN <<seq[k]>> ELSE <<>>) \o Pick(seq, keep, k + 1)

\* the queue delivers the retried messages of the finished batch again
IngestRedeliver ==
  /\ ingest.pc = "next"
  /\ ingest.i > Len(ingest.batch)
  /\ ingest.retried # {}
  /\ ingest.round < MaxRedeliveries
  /\ ingest' = [NoBatch EXCEPT !.batch = Pick(ingest.batch, ingest.retried, 1),
                               !.prior = Pick(ingest.log, ingest.retried, 1),
                               !.round = ingest.round + 1]
  /\ UNCHANGED ingest_db
  /\ IngestUnchanged

\* a binding rejects, in the first delivery
IngestFault ==
  /\ ingest.round = 0
  /\ \/ IngestInsertRawFails \/ IngestCreateRunFails
     \/ IngestStageFails \/ IngestAnalyseFails

NextRedelivery ==
  \/ IngestBegin \/ IngestInsertRaw \/ IngestCreateRun \/ IngestStage \/ IngestAnalyse
  \/ IngestCatch
  \/ IngestFault
  \/ IngestRedeliver

SpecRedelivery == InitIngest /\ [][NextRedelivery]_vars

\* C37: a redelivered message whose previous handling had inserted its raw_ingest
\* row and then failed is handled without an exception once the fault has cleared.
C37_RedeliveryRecovers ==
  \A k \in Handled :
    /\ ingest.round >= 1
    /\ ingest.prior[k].rawId # ""
    /\ ingest.prior[k].threw # ""
    => ingest.log[k].threw = ""

(***************************************************************************)
(* The extension background script (src/unnamed/part_004): one module-     *)
(* level socket variable, one reconnect timer handle, and the handling of  *)
(* a command message of the worker.                                        *)
(***************************************************************************)

\* how many WebSockets the script creates in a run of the model
MaxExtSockets == 3

\* how many times connectToWorker is called by another module
MaxConnectCalls == 2

\* how many messages the sockets deliver
MaxMessages == 2

ExtSocketIds == 1..MaxExtSockets

RequestIds == {"r1", "r2"}

\* event.data of a message: text that does not parse, the JSON null, an object
\* without command, an object of which command is a number, and objects with a
\* string command
ExtensionMessages ==
  {[parses |-> FALSE, object |-> FALSE, commandType |-> "undefined", command |-> "",
    requestId |-> "r1"],
   [parses |-> TRUE, object |-> FALSE, commandType |-> "undefined", command |-> "",
    requestId |-> "r1"],
   [parses |-> TRUE, object |-> TRUE, commandType |-> "undefined", command |-> "",
    requestId |-> "r1"],
   [parses |-> TRUE, object |-> TRUE, commandType |-> "number", command |-> "",
    requestId |-> "r2"]}
  \cup {[parses |-> TRUE, object |-> TRUE, commandType |-> "string", command |-> c,
         requestId |-> r] : c \in {"scrapeLinkedInJobs", "openTab"}, r \in RequestIds}

\* what running the tool handler comes to: no handler in the registry, a result,
\* a result JSON.stringify throws on (a cycle, a BigInt), an exception
ToolOutcomes == {"missing", "result", "unserializable", "throws"}

\* the response payloads: ok, and whether JSON.stringify accepts the payload
ResponsePayload(m, ok, serializable) ==
  [command |-> m.command, requestId |-> m.requestId, ok |-> ok,
   serializable |-> serializable]

\* readyState CONNECTING or OPEN
Live(e, s) == e.readyState[s] \in {"connecting", "open"}

\* the WebSockets that are connecting or open
LiveSockets(e) == {s \in DOMAIN e.readyState : Live(e, s)}

clearReconnectTimeout(e) ==
  IF e.reconnectTimeout # 0
    THEN [e EXCEPT !.timers = @ \ {e.reconnectTimeout}, !.reconnectTimeout = 0]
    ELSE e

scheduleReconnect(e) ==
  LET c == clearReconnectTimeout(e)
  IN  [c EXCEPT !.reconnectTimeout = c.nextTimer,
                !.timers = @ \cup {c.nextTimer},
                !.nextTimer = @ + 1]

\* connectToWorker: nothing when the socket variable holds a socket that is open
\* or connecting, else a new WebSocket assigned to the variable
connectToWorker(e) ==
  IF e.socket # 0 /\ Live(e, e.socket)
    THEN e
    ELSE [e EXCEPT !.readyState = Append(@, "connecting"),
                   !.socket = Len(e.readyState) + 1]

\* connectToWorker creates no socket, or the model has one left to create
CanConnect(e) ==
  \/ e.socket # 0 /\ Live(e, e.socket)
  \/ Len(e.readyState) < MaxExtSockets

\* everything but the extension background
BackgroundUnchanged ==
  /\ UNCHANGED <<company_configs, selector_kv, production_jobs, bridge, handler, audit,
                 deliveries, lastUpsert, channel, hub>>
  /\ ResolverUnchanged /\ UNCHANGED <<upload, ingest, ingest_db>> /\ PromotionUnchanged

initializeBackground ==
  /\ BackgroundUnchanged
  /\ ~extension.initialized
  /\ CanConnect(extension)
  /\ extension' = [connectToWorker(extension) EXCEPT !.initialized = TRUE,
                                                     !.last = "initialize"]

\* a call of the exported connectToWorker
ConnectCall ==
  /\ BackgroundUnchanged
  /\ extension.calls < MaxConnectCalls
  /\ CanConnect(extension)
  /\ extension' = [connectToWorker(extension) EXCEPT !.calls = @ + 1,
                                                     !.last = "connect"]

\* the reconnect timer fires: reconnectTimeout = null; connectToWorker()
TimerFires(t) ==
  /\ BackgroundUnchanged
  /\ t \in extension.timers
  /\ LET fired == [extension EXCEPT !.timers = @ \ {t}, !.reconnectTimeout = 0]
     IN  /\ CanConnect(fired)
         /\ extension' = [connectToWorker(fired) EXCEPT !.last = "timer"]

\* socket.onopen
SocketOpens(s) ==
  /\ BackgroundUnchanged
  /\ s \in DOMAIN extension.readyState
  /\ extension.readyState[s] = "connecting"
  /\ extension' = [clearReconnectTimeout(extension) EXCEPT !.readyState[s] = "open",
                                                           !.last = "open"]

\* the closing handshake starts: readyState CLOSING, no event yet
SocketClosing(s) ==
  /\ BackgroundUnchanged
  /\ s \in DOMAIN extension.readyState
  /\ extension.readyState[s] = "open"
  /\ extension' = [extension EXCEPT !.readyState[s] = "closing", !.last = "closing"]

\* socket.onerror: a log line
SocketErrors(s) ==
  /\ BackgroundUnchanged
  /\ s \in DOMAIN extension.readyState
  /\ extension.readyState[s] # "closed"
  /\ extension' = [extension EXCEPT !.last = "error"]

\* socket.onclose of socket s: socket = null; scheduleReconnect()
SocketCloses(s) ==
  /\ BackgroundUnchanged
  /\ s \in DOMAIN extension.readyState
  /\ extension.readyState[s] # "closed"
  /\ extension' = [scheduleReconnect([extension EXCEPT !.socket = 0])
                     EXCEPT !.readyState[s] = "closed", !.last = "close"]

\* socket.onmessage up to its first await
OnMessage(s, m) ==
  /\ BackgroundUnchanged
  /\ s \in DOMAIN extension.readyState
  /\ extension.readyState[s] = "open"
  /\ extension.message.pc \in {"idle", "done"}
  /\ extension.received < MaxMessages
  /\ extension' =
       [extension EXCEPT
          !.received = @ + 1,
          !.last = "message",
          !.message =
            IF ~m.parses \/ ~m.object \/ m.commandType # "string"
              THEN NoMessage
            ELSE IF m.command = "scrapeLinkedInJobs"
              THEN [NoMessage EXCEPT !.pc = "tool", !.command = m.command,
                                     !.requestId = m.requestId]
            ELSE [NoMessage EXCEPT !.pc = "send", !.command = m.command,
                                   !.requestId = m.requestId,
                                   !.payload = ResponsePayload(m, FALSE, TRUE)]]

\* handleToolExecution up to the call of sendThroughSocket
handleToolExecution(outcome) ==
  /\ BackgroundUnchanged
  /\ extension.message.pc = "tool"
  /\ extension' =
       [extension EXCEPT
          !.last = "tool",
          !.message.pc = "send",
          !.message.inTry = outcome \in {"result", "unserializable"},
          !.message.payload =
            ResponsePayload(extension.message, outcome \in {"result", "unserializable"},
                            outcome # "unserializable")]

\* what a call of sendThroughSocket emits
Emission(e, via, sent) ==
  [via |-> via, command |-> e.message.payload.command,
   requestId |-> e.message.payload.requestId, ok |-> e.message.payload.ok,
   open |-> e.socket # 0 /\ e.readyState[e.socket] = "open", sent |-> sent]

\* sendThroughSocket without the fallback: a payload that cannot go over the
\* socket is dropped
sendThroughSocket_NoFallback(e, sent) ==
  IF e.socket # 0 /\ e.readyState[e.socket] = "open" /\ sent
    THEN [e EXCEPT !.message.pc = "done",
                   !.message.emitted = Append(@, Emission(e, "socket", sent))]
    ELSE [e EXCEPT !.message.pc = "done"]

\* sendThroughSocket of a payload JSON.stringify accepts; sent: socket.send
\* returns instead of throwing.  The fallback starts its fetch at once
sendThroughSocket(e, sent) ==
  IF e.socket # 0 /\ e.readyState[e.socket] = "open" /\ sent
    THEN [e EXCEPT !.message.pc = "done",
                   !.message.emitted = Append(@, Emission(e, "socket", sent))]
    ELSE [e EXCEPT !.message.pc = "posting",
                   !.message.emitted = Append(@, Emission(e, "post", sent))]

\* the call of sendThroughSocket; JSON.stringify throwing inside the try block of
\* handleToolExecution lands in its catch, which sends the error payload
SendStep(sent) ==
  /\ BackgroundUnchanged
  /\ extension.message.pc = "send"
  /\ extension' =
       IF ~extension.message.payload.serializable
         THEN [extension EXCEPT
                 !.last = "caught",
                 !.message.inTry = FALSE,
                 !.message.payload = ResponsePayload(extension.message, FALSE, TRUE)]
         ELSE [sendThroughSocket(extension, sent) EXCEPT !.last = "send"]

\* postFallbackIngest: the fetch settles, a failure is logged
postFallbackIngest(ok) ==
  /\ BackgroundUnchanged
  /\ extension.message.pc = "posting"
  /\ extension' = [extension EXCEPT !.message.pc = "done",
                                    !.last = IF ok THEN "posted" ELSE "post failed"]

NextExtension ==
  \/ initializeBackground
  \/ ConnectCall
  \/ \E t \in ExtSocketIds : TimerFires(t)
  \/ \E s \in ExtSocketIds : SocketOpens(s) \/ SocketClosing(s) \/ SocketErrors(s) \/ SocketCloses(s)
  \/ \E s \in ExtSocketIds, m \in ExtensionMessages : OnMessage(s, m)
  \/ \E outcome \in ToolOutcomes : handleToolExecution(outcome)
  \/ \E sent \in BOOLEAN : SendStep(sent)
  \/ \E ok \in BOOLEAN : postFallbackIngest(ok)

SpecExtension == Init /\ [][NextExtension]_vars

\* C38: at most one WebSocket created by connectToWorker is connecting or open at
\* a time, and at most one reconnect timer is pending, under every interleaving of
\* connectToWorker calls, socket events and timer firings
C38_OneSocketOneTimer ==
  /\ Cardinality(LiveSockets(extension)) <= 1
  /\ Cardinality(extension.timers) <= 1

\* C39: a handled message with a string command has emitted exactly one response,
\* carrying the message's command and requestId, over the socket exactly when the
\* socket was open and the send succeeded and by one fallback POST otherwise; no
\* message ever has two responses
C39_ExactlyOneResponse ==
  /\ Len(extension.message.emitted) <= 1
  /\ extension.message.pc \in {"posting", "done"} =>
       /\ Len(extension.message.emitted) = 1
       /\ LET r == extension.message.emitted[1]
          IN  /\ r.command = extension.message.command
              /\ r.requestId = extension.message.requestId
              /\ r.via = (IF r.open /\ r.sent THEN "socket" ELSE "post")

\* a tool command was answered with an error payload that went out by the fallback
\* POST, and the POST's fetch failed
C39_Witness ==
  /\ extension.message.pc = "done"
  /\ extension.message.command = "scrapeLinkedInJobs"
  /\ Len(extension.message.emitted) = 1
  /\ extension.message.emitted[1].via = "post"
  /\ ~extension.message.emitted[1].ok
  /\ extension.last = "post failed"

====
